---- MODULE Spec2Model ----
(***************************************************************************)
(* A model of the format-neutral object file builder of src/write/mod.rs:  *)
(* the Object (sections, standard section map, symbols, symbol name map),  *)
(* its mutating methods, and the per-format policy its methods dispatch    *)
(* to.  Every method is an operator from the receiver (self) and the       *)
(* arguments to a record [self, ret, panic]; an action applies one method  *)
(* to the variable object and records the call in the variable last.       *)
(*                                                                         *)
(* Byte strings (Vec<u8>) are sequences of one-character strings, byte     *)
(* buffers are sequences of 0..255, identifiers are 0-based indices        *)
(* (SectionId(n) is the n-th element, Seq index n + 1), Option<T> is <<>>  *)
(* for None and <<x>> for Some(x), and a HashMap is a function whose       *)
(* DOMAIN is its key set.  An i64 addend is its two's complement image:    *)
(* eight base-256 digits, least significant first.                         *)
(***************************************************************************)
EXTENDS Integers, Sequences, FiniteSets, Bags, TLC

VARIABLES object, last, failed, debug_assertions, hist

vars == <<object, last, failed, debug_assertions, hist>>

(***************************************************************************)
(* Bounds of the model.                                                    *)
(***************************************************************************)
MaxSections == 3

MaxRoleSections == 3

MaxSymbolSections == 1

MaxSymbols == 2

MaxDataLen == 9

MaxAppendSize == 5

MaxRelocations == 2

MaxComdats == 2

MaxIdSections == 2

MaxDataSymbols == 4

MaxSymbolDataSize == 3

\* SpecFrame: the greatest length of a section's buffer.
MaxFrameSize == 3

(***************************************************************************)
(* Option, HashMap and result helpers.                                     *)
(***************************************************************************)
None == <<>>

Some(x) == <<x>>

EmptyMap == [k \in {} |-> 0]

contains_key(map, key) == key \in DOMAIN map

insert(map, key, value) ==
    [k \in (DOMAIN map) \cup {key} |-> IF k = key THEN value ELSE map[k]]

get(map, key) == IF key \in DOMAIN map THEN Some(map[key]) ELSE None

\* The value of a `let` binding: the element of a one-element set.
TheOne(S) == CHOOSE x \in S : TRUE

Return(self, ret) == [self |-> self, ret |-> ret, panic |-> FALSE]

Panic(self) == [self |-> self, ret |-> None, panic |-> TRUE]

(***************************************************************************)
(* Enumerations.                                                           *)
(***************************************************************************)
BinaryFormat == {"Coff", "Elf", "MachO", "Xcoff"}

Architecture == {"I386", "X86_64", "Unknown"}

Endianness == {"Little", "Big"}

StandardSection_all ==
    << "Text", "Data", "ReadOnlyData", "ReadOnlyDataWithRel", "ReadOnlyString",
       "UninitializedData", "Tls", "UninitializedTls", "TlsVariables", "Common",
       "GnuProperty" >>

StandardSection == {StandardSection_all[i] : i \in DOMAIN StandardSection_all}

Mangling == {"None", "Coff", "CoffI386", "Elf", "MachO", "Xcoff"}

Mangling_default(format, architecture) ==
    CASE format = "Coff" /\ architecture = "I386" -> "CoffI386"
      [] format = "Coff" /\ architecture # "I386" -> "Coff"
      [] format = "Elf" -> "Elf"
      [] format = "MachO" -> "MachO"
      [] format = "Xcoff" -> "Xcoff"
      [] OTHER -> "None"

Mangling_global_prefix(mangling) ==
    IF mangling \in {"None", "Elf", "Coff", "Xcoff"} THEN None ELSE Some("_")

SymbolSection_Section(id) == [tag |-> "Section", id |-> id]

SymbolSection_None == [tag |-> "None"]

SymbolSection_Undefined == [tag |-> "Undefined"]

SymbolSection_Absolute == [tag |-> "Absolute"]

SymbolSection_Common == [tag |-> "Common"]

SymbolSection_id(section) ==
    IF section.tag = "Section" THEN Some(section.id) ELSE None

Symbol_is_undefined(symbol) == symbol.section = SymbolSection_Undefined

(***************************************************************************)
(* The format policy: the standard section tuples of each format, and      *)
(* which section kinds are zero-fill.                                      *)
(***************************************************************************)
SectionInfo(segment, name, kind, flags) ==
    [segment |-> segment, name |-> name, kind |-> kind, flags |-> flags]

SectionKind_is_bss(kind) ==
    kind \in {"UninitializedData", "UninitializedTls", "Common"}

elf_section_info(section) ==
    CASE section = "Text" ->
        SectionInfo(<<>>, <<".", "t", "e", "x", "t">>, "Text", "None")
      [] section = "Data" ->
        SectionInfo(<<>>, <<".", "d", "a", "t", "a">>, "Data", "None")
      [] section = "ReadOnlyData" ->
        SectionInfo(<<>>, <<".", "r", "o", "d", "a", "t", "a">>, "ReadOnlyData", "None")
      [] section = "ReadOnlyDataWithRel" ->
        SectionInfo(<<>>, <<".", "d", "a", "t", "a", ".", "r", "e", "l", ".", "r", "o">>, "ReadOnlyDataWithRel", "None")
      [] section = "ReadOnlyString" ->
        SectionInfo(<<>>, <<".", "r", "o", "d", "a", "t", "a">>, "ReadOnlyData", "None")
      [] section = "UninitializedData" ->
        SectionInfo(<<>>, <<".", "b", "s", "s">>, "UninitializedData", "None")
      [] section = "Tls" ->
        SectionInfo(<<>>, <<".", "t", "d", "a", "t", "a">>, "Tls", "None")
      [] section = "UninitializedTls" ->
        SectionInfo(<<>>, <<".", "t", "b", "s", "s">>, "UninitializedTls", "None")
      [] section = "TlsVariables" ->
        SectionInfo(<<>>, <<>>, "TlsVariables", "None")
      [] section = "Common" ->
        SectionInfo(<<>>, <<>>, "Common", "None")
      [] section = "GnuProperty" ->
        SectionInfo(<<>>, <<".", "n", "o", "t", "e", ".", "g", "n", "u", ".", "p", "r", "o", "p", "e", "r", "t", "y">>, "Note", "SHF_ALLOC")

coff_section_info(section) ==
    CASE section = "Text" ->
        SectionInfo(<<>>, <<".", "t", "e", "x", "t">>, "Text", "None")
      [] section = "Data" ->
        SectionInfo(<<>>, <<".", "d", "a", "t", "a">>, "Data", "None")
      [] section = "ReadOnlyData" ->
        SectionInfo(<<>>, <<".", "r", "d", "a", "t", "a">>, "ReadOnlyData", "None")
      [] section = "ReadOnlyDataWithRel" ->
        SectionInfo(<<>>, <<".", "r", "d", "a", "t", "a">>, "ReadOnlyData", "None")
      [] section = "ReadOnlyString" ->
        SectionInfo(<<>>, <<".", "r", "d", "a", "t", "a">>, "ReadOnlyData", "None")
      [] section = "UninitializedData" ->
        SectionInfo(<<>>, <<".", "b", "s", "s">>, "UninitializedData", "None")
      [] section = "Tls" ->
        SectionInfo(<<>>, <<".", "t", "l", "s", "$">>, "Data", "None")
      [] section = "UninitializedTls" ->
        SectionInfo(<<>>, <<>>, "UninitializedTls", "None")
      [] section = "TlsVariables" ->
        SectionInfo(<<>>, <<>>, "TlsVariables", "None")
      [] section = "Common" ->
        SectionInfo(<<>>, <<>>, "Common", "None")
      [] section = "GnuProperty" ->
        SectionInfo(<<>>, <<>>, "Note", "None")

macho_section_info(section) ==
    CASE section = "Text" ->
        SectionInfo(<<"_", "_", "T", "E", "X", "T">>, <<"_", "_", "t", "e", "x", "t">>, "Text", "None")
      [] section = "Data" ->
        SectionInfo(<<"_", "_", "D", "A", "T", "A">>, <<"_", "_", "d", "a", "t", "a">>, "Data", "None")
      [] section = "ReadOnlyData" ->
        SectionInfo(<<"_", "_", "T", "E", "X", "T">>, <<"_", "_", "c", "o", "n", "s", "t">>, "ReadOnlyData", "None")
      [] section = "ReadOnlyDataWithRel" ->
        SectionInfo(<<"_", "_", "D", "A", "T", "A">>, <<"_", "_", "c", "o", "n", "s", "t">>, "ReadOnlyDataWithRel", "None")
      [] section = "ReadOnlyString" ->
        SectionInfo(<<"_", "_", "T", "E", "X", "T">>, <<"_", "_", "c", "s", "t", "r", "i", "n", "g">>, "ReadOnlyString", "None")
      [] section = "UninitializedData" ->
        SectionInfo(<<"_", "_", "D", "A", "T", "A">>, <<"_", "_", "b", "s", "s">>, "UninitializedData", "None")
      [] section = "Tls" ->
        SectionInfo(<<"_", "_", "D", "A", "T", "A">>, <<"_", "_", "t", "h", "r", "e", "a", "d", "_", "d", "a", "t", "a">>, "Tls", "None")
      [] section = "UninitializedTls" ->
        SectionInfo(<<"_", "_", "D", "A", "T", "A">>, <<"_", "_", "t", "h", "r", "e", "a", "d", "_", "b", "s", "s">>, "UninitializedTls", "None")
      [] section = "TlsVariables" ->
        SectionInfo(<<"_", "_", "D", "A", "T", "A">>, <<"_", "_", "t", "h", "r", "e", "a", "d", "_", "v", "a", "r", "s">>, "TlsVariables", "None")
      [] section = "Common" ->
        SectionInfo(<<"_", "_", "D", "A", "T", "A">>, <<"_", "_", "c", "o", "m", "m", "o", "n">>, "Common", "None")
      [] section = "GnuProperty" ->
        SectionInfo(<<>>, <<>>, "Note", "None")

xcoff_section_info(section) ==
    CASE section = "Text" ->
        SectionInfo(<<>>, <<".", "t", "e", "x", "t">>, "Text", "None")
      [] section = "Data" ->
        SectionInfo(<<>>, <<".", "d", "a", "t", "a">>, "Data", "None")
      [] section = "ReadOnlyData" ->
        SectionInfo(<<>>, <<".", "r", "d", "a", "t", "a">>, "ReadOnlyData", "None")
      [] section = "ReadOnlyDataWithRel" ->
        SectionInfo(<<>>, <<".", "r", "d", "a", "t", "a">>, "ReadOnlyData", "None")
      [] section = "ReadOnlyString" ->
        SectionInfo(<<>>, <<".", "r", "d", "a", "t", "a">>, "ReadOnlyData", "None")
      [] section = "UninitializedData" ->
        SectionInfo(<<>>, <<".", "b", "s", "s">>, "UninitializedData", "None")
      [] section = "Tls" ->
        SectionInfo(<<>>, <<".", "t", "d", "a", "t", "a">>, "Tls", "None")
      [] section = "UninitializedTls" ->
        SectionInfo(<<>>, <<".", "t", "b", "s", "s">>, "UninitializedTls", "None")
      [] section = "TlsVariables" ->
        SectionInfo(<<>>, <<>>, "TlsVariables", "None")
      [] section = "Common" ->
        SectionInfo(<<>>, <<>>, "Common", "None")
      [] section = "GnuProperty" ->
        SectionInfo(<<>>, <<>>, "Note", "None")

section_info(self, section) ==
    CASE self.format = "Coff" -> coff_section_info(section)
      [] self.format = "Elf" -> elf_section_info(section)
      [] self.format = "MachO" -> macho_section_info(section)
      [] self.format = "Xcoff" -> xcoff_section_info(section)

(***************************************************************************)
(* Object::new.                                                            *)
(***************************************************************************)
Object_new(format, architecture, endian) ==
    [ format |-> format,
      architecture |-> architecture,
      endian |-> endian,
      sections |-> << >>,
      standard_sections |-> EmptyMap,
      symbols |-> << >>,
      symbol_map |-> EmptyMap,
      comdats |-> << >>,
      mangling |-> Mangling_default(format, architecture),
      tlv_bootstrap |-> None,
      macho_subsections_via_symbols |-> FALSE ]

section(self, id) == self.sections[id + 1]

symbol(self, id) == self.symbols[id + 1]

SectionIds(self) == 0 .. (Len(self.sections) - 1)

SymbolIds(self) == 0 .. (Len(self.symbols) - 1)

with_section(self, id, sec) ==
    [self EXCEPT !.sections = [self.sections EXCEPT ![id + 1] = sec]]

with_symbol(self, id, sym) ==
    [self EXCEPT !.symbols = [self.symbols EXCEPT ![id + 1] = sym]]

(***************************************************************************)
(* Object::add_section: push the section, then register it for every       *)
(* standard section that has no registration and whose policy triple is    *)
(* the section's.                                                          *)
(***************************************************************************)
Section_new(segment, name, kind) ==
    [ segment |-> segment,
      name |-> name,
      kind |-> kind,
      size |-> 0,
      align |-> 1,
      data |-> << >>,
      relocations |-> << >>,
      symbol |-> None,
      flags |-> "None" ]

\* The standard section loop of add_section stopping at the first standard
\* section it registers.
RECURSIVE register_first_standard_section(_, _, _)
register_first_standard_section(self, id, i) ==
    IF i > Len(StandardSection_all) THEN self
    ELSE LET standard_section == StandardSection_all[i]
             info == section_info(self, standard_section)
             sec == self.sections[id + 1]
         IN  IF /\ ~contains_key(self.standard_sections, standard_section)
                /\ info.segment = sec.segment
                /\ info.name = sec.name
                /\ info.kind = sec.kind
             THEN [self EXCEPT !.standard_sections =
                      insert(self.standard_sections, standard_section, id)]
             ELSE register_first_standard_section(self, id, i + 1)

\* The standard section loop of add_section comparing the kind only.
RECURSIVE register_standard_sections_by_kind(_, _, _)
register_standard_sections_by_kind(self, id, i) ==
    IF i > Len(StandardSection_all) THEN self
    ELSE LET standard_section == StandardSection_all[i]
             info == section_info(self, standard_section)
             sec == self.sections[id + 1]
             next ==
                 IF /\ ~contains_key(self.standard_sections, standard_section)
                    /\ info.kind = sec.kind
                 THEN [self EXCEPT !.standard_sections =
                          insert(self.standard_sections, standard_section, id)]
                 ELSE self
         IN  register_standard_sections_by_kind(next, id, i + 1)

\* The standard section loop of add_section without the test for an
\* existing registration.
RECURSIVE register_standard_sections_repointing(_, _, _)
register_standard_sections_repointing(self, id, i) ==
    IF i > Len(StandardSection_all) THEN self
    ELSE LET standard_section == StandardSection_all[i]
             info == section_info(self, standard_section)
             sec == section(self, id)
             next ==
                 IF /\ info.segment = sec.segment
                    /\ info.name = sec.name
                    /\ info.kind = sec.kind
                 THEN [self EXCEPT !.standard_sections =
                          insert(self.standard_sections, standard_section, id)]
                 ELSE self
         IN  register_standard_sections_repointing(next, id, i + 1)

RECURSIVE register_standard_sections(_, _, _)
register_standard_sections(self, id, i) ==
    IF i > Len(StandardSection_all) THEN self
    ELSE LET standard_section == StandardSection_all[i]
             info == section_info(self, standard_section)
             sec == section(self, id)
             next ==
                 IF /\ ~contains_key(self.standard_sections, standard_section)
                    /\ info.segment = sec.segment
                    /\ info.name = sec.name
                    /\ info.kind = sec.kind
                 THEN [self EXCEPT !.standard_sections =
                          insert(self.standard_sections, standard_section, id)]
                 ELSE self
         IN  register_standard_sections(next, id, i + 1)

add_section(self, segment, name, kind) ==
    LET id == Len(self.sections)
        pushed == [self EXCEPT !.sections =
                      Append(self.sections, Section_new(segment, name, kind))]
    IN  Return(register_standard_sections(pushed, id, 1), id)

(***************************************************************************)
(* Object::section_id.                                                     *)
(***************************************************************************)
\* section_id without the lookup in standard_sections.
section_id_always_adds(self, standard_section) ==
    LET info == section_info(self, standard_section)
        added == add_section(self, info.segment, info.name, info.kind)
        id == added.ret
    IN  Return(with_section(added.self, id,
                   [section(added.self, id) EXCEPT !.flags = info.flags]),
               id)

section_id(self, standard_section) ==
    IF contains_key(self.standard_sections, standard_section)
    THEN Return(self, self.standard_sections[standard_section])
    ELSE LET info == section_info(self, standard_section)
             added == add_section(self, info.segment, info.name, info.kind)
             id == added.ret
         IN  Return(with_section(added.self, id,
                        [section(added.self, id) EXCEPT !.flags = info.flags]),
                    id)

(***************************************************************************)
(* Subsections: add_subsection, has_subsections_via_symbols,               *)
(* set_subsections_via_symbols, subsection_info and subsection_name.  The  *)
(* per-format name synthesis appends the separator of the format and the   *)
(* value to the standard section's name.                                   *)
(***************************************************************************)
\* has_subsections_via_symbols reading the switch as well as the format.
has_subsections_via_symbols_when_enabled(self) ==
    self.format = "MachO" /\ self.macho_subsections_via_symbols

has_subsections_via_symbols(self) == self.format = "MachO"

set_subsections_via_symbols(self) ==
    IF self.format = "MachO"
    THEN Return([self EXCEPT !.macho_subsections_via_symbols = TRUE], None)
    ELSE Return(self, None)

coff_subsection_name(section_name, value) ==
    IF value # << >> THEN section_name \o <<"$">> \o value ELSE section_name

elf_subsection_name(section_name, value) ==
    IF value # << >> THEN section_name \o <<".">> \o value ELSE section_name

subsection_name(self, section_name, value) ==
    IF debug_assertions /\ has_subsections_via_symbols(self) THEN Panic(self)
    ELSE CASE self.format = "Coff" ->
                Return(self, coff_subsection_name(section_name, value))
           [] self.format = "Elf" ->
                Return(self, elf_subsection_name(section_name, value))
           [] OTHER -> Panic(self)

subsection_info(self, standard_section, value) ==
    LET info == section_info(self, standard_section)
        named == subsection_name(self, info.name, value)
    IN  IF named.panic THEN Panic(self)
        ELSE Return(self, SectionInfo(info.segment, named.ret, info.kind,
                                      info.flags))

add_subsection(self, standard_section, name) ==
    IF has_subsections_via_symbols(self)
    THEN section_id(self, standard_section)
    ELSE LET got == subsection_info(self, standard_section, name)
         IN  IF got.panic THEN Panic(self)
             ELSE LET info == got.ret
                      added == add_section(self, info.segment, info.name,
                                           info.kind)
                      id == added.ret
                  IN  Return(with_section(added.self, id,
                                 [section(added.self, id)
                                     EXCEPT !.flags = info.flags]),
                             id)

(***************************************************************************)
(* Section::set_data, Section::append_data, Section::append_bss and        *)
(* Section::data_mut.  A debug_assert! panics in a build with debug        *)
(* assertions and is compiled out otherwise.                               *)
(***************************************************************************)
RECURSIVE BitAnd(_, _)
BitAnd(a, b) ==
    IF a = 0 \/ b = 0 THEN 0
    ELSE (a % 2) * (b % 2) + 2 * BitAnd(a \div 2, b \div 2)

resize(data, new_len, value) ==
    [i \in 1 .. new_len |-> IF i <= Len(data) THEN data[i] ELSE value]

Section_is_bss(sec) == SectionKind_is_bss(sec.kind)

Section_set_data(sec, data, align) ==
    IF debug_assertions /\ Section_is_bss(sec) THEN Panic(sec)
    ELSE IF debug_assertions /\ BitAnd(align, align - 1) # 0 THEN Panic(sec)
    ELSE IF debug_assertions /\ sec.data # << >> THEN Panic(sec)
    ELSE Return([sec EXCEPT !.data = data, !.size = Len(data), !.align = align],
                None)

\* Section::append_data without the padding of lines 899-902.
Section_append_data_unpadded(sec, append_data, align) ==
    IF debug_assertions /\ Section_is_bss(sec) THEN Panic(sec)
    ELSE IF debug_assertions /\ BitAnd(align, align - 1) # 0 THEN Panic(sec)
    ELSE LET align1 == IF sec.align < align THEN align ELSE sec.align
             data == sec.data \o append_data
         IN  Return([sec EXCEPT !.align = align1, !.data = data,
                                !.size = Len(data)],
                    Len(sec.data))

\* append_data computing the padded offset without resizing the buffer to it.
Section_append_data_without_resize(sec, append_data, align) ==
    IF debug_assertions /\ Section_is_bss(sec) THEN Panic(sec)
    ELSE IF debug_assertions /\ BitAnd(align, align - 1) # 0 THEN Panic(sec)
    ELSE LET align1 == IF sec.align < align THEN align ELSE sec.align
             len == Len(sec.data)
             misaligned == BitAnd(len, align - 1) # 0
             offset == IF misaligned
                       THEN len + (align - BitAnd(len, align - 1))
                       ELSE len
             data == sec.data \o append_data
         IN  Return([sec EXCEPT !.align = align1, !.data = data,
                                !.size = Len(data)],
                    offset)

Section_append_data(sec, append_data, align) ==
    IF debug_assertions /\ Section_is_bss(sec) THEN Panic(sec)
    ELSE IF debug_assertions /\ BitAnd(align, align - 1) # 0 THEN Panic(sec)
    ELSE LET align1 == IF sec.align < align THEN align ELSE sec.align
             len == Len(sec.data)
             misaligned == BitAnd(len, align - 1) # 0
             offset == IF misaligned
                       THEN len + (align - BitAnd(len, align - 1))
                       ELSE len
             padded == IF misaligned THEN resize(sec.data, offset, 0)
                       ELSE sec.data
             data == padded \o append_data
         IN  Return([sec EXCEPT !.align = align1, !.data = data,
                                !.size = Len(data)],
                    offset)

\* append_bss without the assertion that the section is a bss section.
Section_append_bss_unchecked(sec, size, align) ==
    IF debug_assertions /\ BitAnd(align, align - 1) # 0 THEN Panic(sec)
    ELSE LET align1 == IF sec.align < align THEN align ELSE sec.align
             misaligned == BitAnd(sec.size, align - 1) # 0
             offset == IF misaligned
                       THEN sec.size + (align - BitAnd(sec.size, align - 1))
                       ELSE sec.size
         IN  Return([sec EXCEPT !.align = align1, !.size = offset + size],
                    offset)

Section_append_bss(sec, size, align) ==
    IF debug_assertions /\ ~Section_is_bss(sec) THEN Panic(sec)
    ELSE IF debug_assertions /\ BitAnd(align, align - 1) # 0 THEN Panic(sec)
    ELSE LET align1 == IF sec.align < align THEN align ELSE sec.align
             misaligned == BitAnd(sec.size, align - 1) # 0
             offset == IF misaligned
                       THEN sec.size + (align - BitAnd(sec.size, align - 1))
                       ELSE sec.size
         IN  Return([sec EXCEPT !.align = align1, !.size = offset + size],
                    offset)

Section_data_mut(sec) ==
    IF debug_assertions /\ Section_is_bss(sec) THEN Panic(sec)
    ELSE Return(sec, sec.data)

(***************************************************************************)
(* Object::set_section_data, append_section_data, append_section_bss.      *)
(***************************************************************************)
on_section(self, sec_id, r) ==
    [self |-> with_section(self, sec_id, r.self), ret |-> r.ret,
     panic |-> r.panic]

set_section_data(self, sec_id, data, align) ==
    on_section(self, sec_id, Section_set_data(section(self, sec_id), data, align))

append_section_data(self, sec_id, data, align) ==
    on_section(self, sec_id,
               Section_append_data(section(self, sec_id), data, align))

append_section_bss(self, sec_id, size, align) ==
    on_section(self, sec_id,
               Section_append_bss(section(self, sec_id), size, align))

(***************************************************************************)
(* The symbol table: set_mangling, symbol_id, add_raw_symbol,              *)
(* section_symbol, add_symbol.                                             *)
(***************************************************************************)
Symbol(name, kind, scope, sym_section, flags) ==
    [ name |-> name, value |-> 0, size |-> 0, kind |-> kind, scope |-> scope,
      weak |-> FALSE, section |-> sym_section, flags |-> flags ]

set_mangling(self, mangling) == Return([self EXCEPT !.mangling = mangling], None)

symbol_id(self, name) == get(self.symbol_map, name)

\* add_raw_symbol taking the id after the push.
add_raw_symbol_id_after_push(self, sym) ==
    Return([self EXCEPT !.symbols = Append(self.symbols, sym)],
           Len(self.symbols) + 1)

add_raw_symbol(self, sym) ==
    Return([self EXCEPT !.symbols = Append(self.symbols, sym)],
           Len(self.symbols))

\* section_symbol without the early return on the cached id.
section_symbol_always_creates(self, sec_id) ==
    LET sec == section(self, sec_id)
        name == IF self.format = "Coff" THEN sec.name ELSE << >>
        symbol_id1 == Len(self.symbols)
        pushed == [self EXCEPT !.symbols =
                      Append(self.symbols,
                             Symbol(name, "Section", "Compilation",
                                    SymbolSection_Section(sec_id), "None"))]
    IN  Return(with_section(pushed, sec_id,
                   [sec EXCEPT !.symbol = Some(symbol_id1)]),
               symbol_id1)

section_symbol(self, sec_id) ==
    LET sec == section(self, sec_id)
    IN  IF sec.symbol # None THEN Return(self, sec.symbol[1])
        ELSE LET name == IF self.format = "Coff" THEN sec.name ELSE << >>
                 symbol_id1 == Len(self.symbols)
                 pushed == [self EXCEPT !.symbols =
                               Append(self.symbols,
                                      Symbol(name, "Section", "Compilation",
                                             SymbolSection_Section(sec_id),
                                             "None"))]
             IN  Return(with_section(pushed, sec_id,
                            [sec EXCEPT !.symbol = Some(symbol_id1)]),
                        symbol_id1)

\* add_symbol with the name map keyed by the name as stored (mangled).
add_symbol_keyed_by_mangled(self, sym) ==
    IF debug_assertions /\ ~(Symbol_is_undefined(sym) \/ sym.scope # "Unknown")
    THEN Panic(self)
    ELSE IF sym.kind = "Section"
    THEN IF SymbolSection_id(sym.section) = None THEN Panic(self)
         ELSE LET got == section_symbol(self, SymbolSection_id(sym.section)[1])
                  symbol_id1 == got.ret
              IN  IF sym.flags # "None"
                  THEN Return(with_symbol(got.self, symbol_id1,
                                  [symbol(got.self, symbol_id1)
                                      EXCEPT !.flags = sym.flags]),
                              symbol_id1)
                  ELSE got
    ELSE IF sym.name # << >> /\ sym.kind \in {"Text", "Data", "Tls"}
    THEN LET prefix == Mangling_global_prefix(self.mangling)
             mangled == IF prefix # None
                        THEN [sym EXCEPT !.name = <<prefix[1]>> \o sym.name]
                        ELSE sym
             added == add_raw_symbol(self, mangled)
         IN  Return([added.self EXCEPT !.symbol_map =
                        insert(added.self.symbol_map, mangled.name, added.ret)],
                    added.ret)
    ELSE add_raw_symbol(self, sym)

\* add_symbol storing the name as given under every mangling scheme.
add_symbol_without_prefix(self, sym) ==
    IF debug_assertions /\ ~(Symbol_is_undefined(sym) \/ sym.scope # "Unknown")
    THEN Panic(self)
    ELSE IF sym.kind = "Section"
    THEN IF SymbolSection_id(sym.section) = None THEN Panic(self)
         ELSE LET got == section_symbol(self, SymbolSection_id(sym.section)[1])
                  symbol_id1 == got.ret
              IN  IF sym.flags # "None"
                  THEN Return(with_symbol(got.self, symbol_id1,
                                  [symbol(got.self, symbol_id1)
                                      EXCEPT !.flags = sym.flags]),
                              symbol_id1)
                  ELSE got
    ELSE IF sym.name # << >> /\ sym.kind \in {"Text", "Data", "Tls"}
    THEN LET unmangled_name == sym.name
             prefix == Mangling_global_prefix(self.mangling)
             mangled == IF prefix # None
                        THEN sym
                        ELSE sym
             added == add_raw_symbol(self, mangled)
         IN  Return([added.self EXCEPT !.symbol_map =
                        insert(added.self.symbol_map, unmangled_name, added.ret)],
                    added.ret)
    ELSE add_raw_symbol(self, sym)

\* add_symbol entering every non-empty name into the name map, whatever the
\* kind.
add_symbol_indexing_every_kind(self, sym) ==
    IF debug_assertions /\ ~(Symbol_is_undefined(sym) \/ sym.scope # "Unknown")
    THEN Panic(self)
    ELSE IF sym.kind = "Section"
    THEN IF SymbolSection_id(sym.section) = None THEN Panic(self)
         ELSE LET got == section_symbol(self, SymbolSection_id(sym.section)[1])
                  symbol_id1 == got.ret
              IN  IF sym.flags # "None"
                  THEN Return(with_symbol(got.self, symbol_id1,
                                  [symbol(got.self, symbol_id1)
                                      EXCEPT !.flags = sym.flags]),
                              symbol_id1)
                  ELSE got
    ELSE IF sym.name # << >>
    THEN LET unmangled_name == sym.name
             prefix == Mangling_global_prefix(self.mangling)
             mangled == IF prefix # None
                        THEN [sym EXCEPT !.name = <<prefix[1]>> \o sym.name]
                        ELSE sym
             added == add_raw_symbol(self, mangled)
         IN  Return([added.self EXCEPT !.symbol_map =
                        insert(added.self.symbol_map, unmangled_name, added.ret)],
                    added.ret)
    ELSE add_raw_symbol(self, sym)

\* add_symbol leaving an existing name map entry as it is.
add_symbol_keeping_first_entry(self, sym) ==
    IF debug_assertions /\ ~(Symbol_is_undefined(sym) \/ sym.scope # "Unknown")
    THEN Panic(self)
    ELSE IF sym.kind = "Section"
    THEN IF SymbolSection_id(sym.section) = None THEN Panic(self)
         ELSE LET got == section_symbol(self, SymbolSection_id(sym.section)[1])
                  symbol_id1 == got.ret
              IN  IF sym.flags # "None"
                  THEN Return(with_symbol(got.self, symbol_id1,
                                  [symbol(got.self, symbol_id1)
                                      EXCEPT !.flags = sym.flags]),
                              symbol_id1)
                  ELSE got
    ELSE IF sym.name # << >> /\ sym.kind \in {"Text", "Data", "Tls"}
    THEN LET unmangled_name == sym.name
             prefix == Mangling_global_prefix(self.mangling)
             mangled == IF prefix # None
                        THEN [sym EXCEPT !.name = <<prefix[1]>> \o sym.name]
                        ELSE sym
             added == add_raw_symbol(self, mangled)
         IN  IF contains_key(self.symbol_map, unmangled_name) THEN added
             ELSE Return([added.self EXCEPT !.symbol_map =
                            insert(added.self.symbol_map, unmangled_name,
                                   added.ret)],
                         added.ret)
    ELSE add_raw_symbol(self, sym)

add_symbol(self, sym) ==
    IF debug_assertions /\ ~(Symbol_is_undefined(sym) \/ sym.scope # "Unknown")
    THEN Panic(self)
    ELSE IF sym.kind = "Section"
    THEN IF SymbolSection_id(sym.section) = None THEN Panic(self)
         ELSE LET got == section_symbol(self, SymbolSection_id(sym.section)[1])
                  symbol_id1 == got.ret
              IN  IF sym.flags # "None"
                  THEN Return(with_symbol(got.self, symbol_id1,
                                  [symbol(got.self, symbol_id1)
                                      EXCEPT !.flags = sym.flags]),
                              symbol_id1)
                  ELSE got
    ELSE IF sym.name # << >> /\ sym.kind \in {"Text", "Data", "Tls"}
    THEN LET unmangled_name == sym.name
             prefix == Mangling_global_prefix(self.mangling)
             mangled == IF prefix # None
                        THEN [sym EXCEPT !.name = <<prefix[1]>> \o sym.name]
                        ELSE sym
             added == add_raw_symbol(self, mangled)
         IN  Return([added.self EXCEPT !.symbol_map =
                        insert(added.self.symbol_map, unmangled_name, added.ret)],
                    added.ret)
    ELSE add_raw_symbol(self, sym)

add_file_symbol(self, name) ==
    add_raw_symbol(self, [Symbol(name, "File", "Compilation",
                                 SymbolSection_None, "None")
                             EXCEPT !.value = 0, !.size = 0, !.weak = FALSE])

(***************************************************************************)
(* The COMDAT store: Comdat and Object::add_comdat.                        *)
(***************************************************************************)
Comdat(kind, symbol_id1, sections) ==
    [kind |-> kind, symbol |-> symbol_id1, sections |-> sections]

add_comdat(self, comdat) ==
    LET comdat_id == Len(self.comdats)
    IN  Return([self EXCEPT !.comdats = Append(self.comdats, comdat)],
               comdat_id)

(***************************************************************************)
(* The relocation pipeline.  The per-format steps (translate, classify     *)
(* the addend storage, the addend's width), the byte-order encoders and    *)
(* the bounds-checked write are the policy add_relocation dispatches to.   *)
(***************************************************************************)
Ok == [ok |-> TRUE]

Err(condition) == [ok |-> FALSE, err |-> condition]

Relocation(offset, symbol_id1, addend, flags) ==
    [offset |-> offset, symbol |-> symbol_id1, addend |-> addend, flags |-> flags]

RelocationFlags_Generic(kind, size) ==
    [tag |-> "Generic", kind |-> kind, size |-> size]

RelocationFlags_Format(format, kind, size) ==
    [tag |-> format, kind |-> kind, size |-> size]

\* An i64 as its two's complement digits, for |n| < 2^24.
I64(n) ==
    [i \in 1 .. 8 |->
        IF i <= 3 THEN (n \div (256 ^ (i - 1))) % 256
        ELSE IF n < 0 THEN 255 ELSE 0]

I64_zero == [i \in 1 .. 8 |-> 0]

\* `addend as u32` and `addend as u64`: the low digits of the two's
\* complement image.
as_u32(addend) == SubSeq(addend, 1, 4)

as_u64(addend) == SubSeq(addend, 1, 8)

reverse(s) == [i \in 1 .. Len(s) |-> s[Len(s) + 1 - i]]

\* U32::new / U64::new followed by bytes_of: the digits in the byte order.
endian_bytes(endian, digits) ==
    IF endian = "Little" THEN digits ELSE reverse(digits)

\* BytesMut::write_at: all of `src` inside the buffer, or nothing.
write_at(data, offset, src) ==
    IF offset <= Len(data) /\ Len(src) <= Len(data) - offset
    THEN [ok |-> TRUE,
          data |-> [i \in 1 .. Len(data) |->
                      IF i > offset /\ i <= offset + Len(src)
                      THEN src[i - offset] ELSE data[i]]]
    ELSE [ok |-> FALSE, data |-> data]

has_encoding(self, flags) ==
    /\ flags.kind \in {"Absolute", "Relative"}
    /\ flags.size \in {16, 32, 64}

translate_relocation(self, relocation) ==
    IF relocation.flags.tag = "Generic"
    THEN IF has_encoding(self, relocation.flags)
         THEN [ret |-> Ok,
               relocation |-> [relocation EXCEPT !.flags =
                   RelocationFlags_Format(self.format, relocation.flags.kind,
                                          relocation.flags.size)]]
         ELSE [ret |-> Err("Unsupported"), relocation |-> relocation]
    ELSE IF relocation.flags.tag = self.format
    THEN [ret |-> Ok, relocation |-> relocation]
    ELSE [ret |-> Err("Unsupported"), relocation |-> relocation]

adjust_addend(self, relocation) ==
    CASE self.format \in {"Coff", "MachO", "Xcoff"} ->
            [ret |-> Ok, implicit |-> TRUE]
      [] self.format = "Elf" /\ self.architecture = "I386" ->
            [ret |-> Ok, implicit |-> TRUE]
      [] self.format = "Elf" /\ self.architecture = "X86_64" ->
            [ret |-> Ok, implicit |-> FALSE]
      [] OTHER -> [ret |-> Err("Unsupported"), implicit |-> FALSE]

relocation_size(self, relocation) == relocation.flags.size

\* write_relocation_addend with a write that keeps the bytes that fit
\* instead of refusing the write.
write_relocation_addend_truncating(self, sec_id, relocation) ==
    LET size == relocation_size(self, relocation)
        data == section(self, sec_id).data
        src == endian_bytes(self.endian,
                   SubSeq(relocation.addend, 1, size \div 8))
        written == [i \in 1 .. Len(data) |->
                      IF i > relocation.offset /\ i <= relocation.offset + Len(src)
                      THEN src[i - relocation.offset] ELSE data[i]]
    IN  IF size \notin {32, 64}
        THEN Return(self, Err("unimplemented relocation addend"))
        ELSE Return(with_section(self, sec_id,
                        [section(self, sec_id) EXCEPT !.data = written]),
                    Ok)

\* write_relocation_addend refusing an addend whose upper half is not a sign
\* extension when the width is 32.
write_relocation_addend_range_checked(self, sec_id, relocation) ==
    LET size == relocation_size(self, relocation)
        got == Section_data_mut(section(self, sec_id))
        data == got.ret
        offset == relocation.offset
        written ==
            IF size = 32
            THEN write_at(data, offset,
                          endian_bytes(self.endian, as_u32(relocation.addend)))
            ELSE write_at(data, offset,
                          endian_bytes(self.endian, as_u64(relocation.addend)))
    IN  IF got.panic THEN Panic(self)
        ELSE IF size = 32 /\ SubSeq(relocation.addend, 5, 8)
                               \notin {<<0, 0, 0, 0>>, <<255, 255, 255, 255>>}
        THEN Return(self, Err("addend out of range"))
        ELSE IF size \notin {32, 64}
        THEN Return(self, Err("unimplemented relocation addend"))
        ELSE IF ~written.ok THEN Return(self, Err("InvalidOffset"))
        ELSE Return(with_section(self, sec_id,
                        [section(self, sec_id) EXCEPT !.data = written.data]),
                    Ok)

write_relocation_addend(self, sec_id, relocation) ==
    LET size == relocation_size(self, relocation)
        got == Section_data_mut(section(self, sec_id))
        data == got.ret
        offset == relocation.offset
        written ==
            IF size = 32
            THEN write_at(data, offset,
                          endian_bytes(self.endian, as_u32(relocation.addend)))
            ELSE write_at(data, offset,
                          endian_bytes(self.endian, as_u64(relocation.addend)))
    IN  IF got.panic THEN Panic(self)
        ELSE IF size \notin {32, 64}
        THEN Return(self, Err("unimplemented relocation addend"))
        ELSE IF ~written.ok THEN Return(self, Err("InvalidOffset"))
        ELSE Return(with_section(self, sec_id,
                        [section(self, sec_id) EXCEPT !.data = written.data]),
                    Ok)

\* push_relocation with the relocation put first instead of last.
push_relocation_front(self, sec_id, relocation) ==
    with_section(self, sec_id,
        [section(self, sec_id) EXCEPT
            !.relocations = <<relocation>> \o section(self, sec_id).relocations])

push_relocation(self, sec_id, relocation) ==
    with_section(self, sec_id,
        [section(self, sec_id) EXCEPT
            !.relocations = Append(section(self, sec_id).relocations, relocation)])

\* add_relocation without `relocation.addend = 0` after the write-back.
add_relocation_keeps_addend(self, sec_id, relocation) ==
    LET translated == translate_relocation(self, relocation)
        adjusted == adjust_addend(self, translated.relocation)
        rel == translated.relocation
        wrote == write_relocation_addend(self, sec_id, rel)
    IN  IF ~translated.ret.ok THEN Return(self, translated.ret)
        ELSE IF ~adjusted.ret.ok THEN Return(self, adjusted.ret)
        ELSE IF adjusted.implicit /\ rel.addend # I64_zero
        THEN IF wrote.panic THEN Panic(self)
             ELSE IF ~wrote.ret.ok THEN Return(self, wrote.ret)
             ELSE Return(push_relocation(wrote.self, sec_id, rel), Ok)
        ELSE Return(push_relocation(self, sec_id, rel), Ok)

\* add_relocation without the `?` on the translate and classify steps: the
\* relocation is committed before the failure is returned.
add_relocation_commits_unsupported(self, sec_id, relocation) ==
    LET translated == translate_relocation(self, relocation)
        adjusted == adjust_addend(self, translated.relocation)
        rel == translated.relocation
        wrote == write_relocation_addend(self, sec_id, rel)
    IN  IF ~translated.ret.ok
        THEN Return(push_relocation(self, sec_id, rel), translated.ret)
        ELSE IF ~adjusted.ret.ok
        THEN Return(push_relocation(self, sec_id, rel), adjusted.ret)
        ELSE IF adjusted.implicit /\ rel.addend # I64_zero
        THEN IF wrote.panic THEN Panic(self)
             ELSE IF ~wrote.ret.ok THEN Return(self, wrote.ret)
             ELSE Return(push_relocation(wrote.self, sec_id,
                             [rel EXCEPT !.addend = I64_zero]),
                         Ok)
        ELSE Return(push_relocation(self, sec_id, rel), Ok)

add_relocation(self, sec_id, relocation) ==
    LET translated == translate_relocation(self, relocation)
        adjusted == adjust_addend(self, translated.relocation)
        rel == translated.relocation
        wrote == write_relocation_addend(self, sec_id, rel)
    IN  IF ~translated.ret.ok THEN Return(self, translated.ret)
        ELSE IF ~adjusted.ret.ok THEN Return(self, adjusted.ret)
        ELSE IF adjusted.implicit /\ rel.addend # I64_zero
        THEN IF wrote.panic THEN Panic(self)
             ELSE IF ~wrote.ret.ok THEN Return(self, wrote.ret)
             ELSE Return(push_relocation(wrote.self, sec_id,
                             [rel EXCEPT !.addend = I64_zero]),
                         Ok)
        ELSE Return(push_relocation(self, sec_id, rel), Ok)

(***************************************************************************)
(* Mach-O thread variables.  A thread-local symbol is reached through a    *)
(* record of three pointers in the thread variables section: the record    *)
(* refers to _tlv_bootstrap and to an initializer symbol, the symbol is    *)
(* pointed at the record, and the initializer symbol takes its place as    *)
(* the symbol the data is attached to.                                     *)
(***************************************************************************)
Architecture_address_size(architecture) ==
    CASE architecture = "I386" -> Some(4)
      [] architecture = "X86_64" -> Some(8)
      [] OTHER -> None

macho_tlv_bootstrap(self) ==
    IF self.tlv_bootstrap # None THEN Return(self, self.tlv_bootstrap[1])
    ELSE LET added ==
                 add_symbol(self,
                     Symbol(<<"_", "t", "l", "v", "_", "b", "o", "o", "t",
                              "s", "t", "r", "a", "p">>,
                            "Text", "Dynamic", SymbolSection_Undefined, "None"))
         IN  IF added.panic THEN Panic(self)
             ELSE Return([added.self EXCEPT !.tlv_bootstrap = Some(added.ret)],
                         added.ret)

macho_add_thread_var(self, symbol_id1) ==
    IF symbol(self, symbol_id1).kind # "Tls" THEN Return(self, symbol_id1)
    ELSE IF Architecture_address_size(self.architecture) = None
    THEN Panic(self)
    ELSE
    LET name == symbol(self, symbol_id1).name
                  \o <<"$", "t", "l", "v", "$", "i", "n", "i", "t">>
        address_size == Architecture_address_size(self.architecture)[1]
        size == address_size * 3
        flags == RelocationFlags_Generic("Absolute", address_size * 8)
    IN  TheOne({
          TheOne({
            TheOne({
              IF appended.panic THEN Panic(self)
              ELSE TheOne({
                IF bootstrap.panic THEN Panic(self)
                ELSE TheOne({
                  IF first.panic \/ ~first.ret.ok THEN Panic(self)
                  ELSE TheOne({
                    IF second.panic \/ ~second.ret.ok THEN Panic(self)
                    ELSE Return(with_symbol(second.self, symbol_id1,
                                    [symbol(second.self, symbol_id1) EXCEPT
                                        !.value = appended.ret,
                                        !.size = size,
                                        !.section =
                                            SymbolSection_Section(got.ret)]),
                                init.ret)
                    : second \in {add_relocation(first.self, got.ret,
                                     Relocation(appended.ret + address_size * 2,
                                                init.ret, I64_zero, flags))} })
                  : first \in {add_relocation(bootstrap.self, got.ret,
                                  Relocation(appended.ret, bootstrap.ret,
                                             I64_zero, flags))} })
                : bootstrap \in {macho_tlv_bootstrap(appended.self)} })
              : appended \in {append_section_data(got.self, got.ret,
                                  [i \in 1 .. size |-> 0], address_size)} })
            : got \in {section_id(init.self, "TlsVariables")} })
          : init \in {add_raw_symbol(self,
                         Symbol(name, "Tls", "Compilation",
                                SymbolSection_Undefined, "None"))} })

(***************************************************************************)
(* Symbol data: set_symbol_data, add_symbol_data, add_symbol_bss,          *)
(* add_common_symbol and symbol_section_and_offset.                        *)
(***************************************************************************)
\* set_symbol_data without the assignment of symbol.section.
set_symbol_data_without_section(self, symbol_id1, sec_id, offset, size) ==
    IF debug_assertions /\ symbol(self, symbol_id1).scope = "Unknown"
    THEN Panic(self)
    ELSE TheOne({
           IF redirected.panic THEN Panic(self)
           ELSE Return(with_symbol(redirected.self, redirected.ret,
                           [symbol(redirected.self, redirected.ret) EXCEPT
                               !.value = offset,
                               !.size = size]),
                       None)
           : redirected \in {IF self.format = "MachO"
                             THEN macho_add_thread_var(self, symbol_id1)
                             ELSE Return(self, symbol_id1)} })

\* set_symbol_data without the assertion on the symbol's scope.
set_symbol_data_unchecked(self, symbol_id1, sec_id, offset, size) ==
    TheOne({
           IF redirected.panic THEN Panic(self)
           ELSE Return(with_symbol(redirected.self, redirected.ret,
                           [symbol(redirected.self, redirected.ret) EXCEPT
                               !.value = offset,
                               !.size = size,
                               !.section = SymbolSection_Section(sec_id)]),
                       None)
           : redirected \in {IF self.format = "MachO"
                             THEN macho_add_thread_var(self, symbol_id1)
                             ELSE Return(self, symbol_id1)} })

set_symbol_data(self, symbol_id1, sec_id, offset, size) ==
    IF debug_assertions /\ symbol(self, symbol_id1).scope = "Unknown"
    THEN Panic(self)
    ELSE TheOne({
           IF redirected.panic THEN Panic(self)
           ELSE Return(with_symbol(redirected.self, redirected.ret,
                           [symbol(redirected.self, redirected.ret) EXCEPT
                               !.value = offset,
                               !.size = size,
                               !.section = SymbolSection_Section(sec_id)]),
                       None)
           : redirected \in {IF self.format = "MachO"
                             THEN macho_add_thread_var(self, symbol_id1)
                             ELSE Return(self, symbol_id1)} })

\* add_symbol_data without the bump of an empty payload.
add_symbol_data_without_bump(self, symbol_id1, sec_id, data, align) ==
    TheOne({
      IF appended.panic THEN Panic(self)
      ELSE TheOne({
             IF set.panic THEN Panic(self)
             ELSE Return(set.self, appended.ret)
             : set \in {set_symbol_data(appended.self, symbol_id1, sec_id,
                                        appended.ret, Len(data))} })
      : appended \in {append_section_data(self, sec_id, data, align)} })

add_symbol_data(self, symbol_id1, sec_id, data, align) ==
    LET data1 == IF data = << >> /\ self.macho_subsections_via_symbols
                 THEN <<0>> ELSE data
    IN  TheOne({
          IF appended.panic THEN Panic(self)
          ELSE TheOne({
                 IF set.panic THEN Panic(self)
                 ELSE Return(set.self, appended.ret)
                 : set \in {set_symbol_data(appended.self, symbol_id1, sec_id,
                                            appended.ret, Len(data1))} })
          : appended \in {append_section_data(self, sec_id, data1, align)} })

add_symbol_bss(self, symbol_id1, sec_id, size, align) ==
    LET size1 == IF size = 0 /\ self.macho_subsections_via_symbols
                 THEN 1 ELSE size
    IN  TheOne({
          IF appended.panic THEN Panic(self)
          ELSE TheOne({
                 IF set.panic THEN Panic(self)
                 ELSE Return(set.self, appended.ret)
                 : set \in {set_symbol_data(appended.self, symbol_id1, sec_id,
                                            appended.ret, size1)} })
          : appended \in {append_section_bss(self, sec_id, size1, align)} })

has_common(self) == self.format = "MachO"

\* add_common_symbol without `symbol.size = size` on a format that has no
\* common section.
add_common_symbol_without_size(self, sym, size, align) ==
    IF has_common(self)
    THEN TheOne({
           IF added.panic THEN Panic(self)
           ELSE TheOne({
                  TheOne({
                    IF placed.panic THEN Panic(self)
                    ELSE Return(placed.self, added.ret)
                    : placed \in {add_symbol_bss(got.self, added.ret, got.ret,
                                                 size, align)} })
                  : got \in {section_id(added.self, "Common")} })
           : added \in {add_symbol(self, sym)} })
    ELSE add_symbol(self, [sym EXCEPT !.section = SymbolSection_Common])

add_common_symbol(self, sym, size, align) ==
    IF has_common(self)
    THEN TheOne({
           IF added.panic THEN Panic(self)
           ELSE TheOne({
                  TheOne({
                    IF placed.panic THEN Panic(self)
                    ELSE Return(placed.self, added.ret)
                    : placed \in {add_symbol_bss(got.self, added.ret, got.ret,
                                                 size, align)} })
                  : got \in {section_id(added.self, "Common")} })
           : added \in {add_symbol(self, sym)} })
    ELSE add_symbol(self, [sym EXCEPT !.section = SymbolSection_Common,
                                      !.size = size])

\* symbol_section_and_offset returning offset 0 for every symbol that has a
\* section.
symbol_section_and_offset_at_zero(self, symbol_id1) ==
    LET sym == symbol(self, symbol_id1)
    IN  IF sym.kind = "Section" THEN Return(self, Some(<<symbol_id1, 0>>))
        ELSE IF SymbolSection_id(sym.section) = None THEN Return(self, None)
        ELSE TheOne({ Return(got.self, Some(<<got.ret, 0>>))
                      : got \in {section_symbol(self,
                                     SymbolSection_id(sym.section)[1])} })

symbol_section_and_offset(self, symbol_id1) ==
    LET sym == symbol(self, symbol_id1)
    IN  IF sym.kind = "Section" THEN Return(self, Some(<<symbol_id1, 0>>))
        ELSE IF SymbolSection_id(sym.section) = None THEN Return(self, None)
        ELSE TheOne({ Return(got.self, Some(<<got.ret, sym.value>>))
                      : got \in {section_symbol(self,
                                     SymbolSection_id(sym.section)[1])} })

(***************************************************************************)
(* The state machine.  object is the builder; last is the latest call,     *)
(* its arguments and what it returned; failed holds once a call panicked   *)
(* (nothing runs after a panic); debug_assertions is the build's setting.  *)
(* hist is history: per section the offset the latest append returned,     *)
(* the largest alignment passed to an append, and whether every content    *)
(* call on it so far was an append of the section's own kind with a        *)
(* power-of-two alignment; and the set of roles asked of section_id.       *)
(***************************************************************************)
Max(a, b) == IF a < b THEN b ELSE a

IsPowerOfTwo(n) == n \in {1, 2, 4, 8, 16}

HistSection == [last_offset |-> None, max_align |-> 0, appends_only |-> TRUE]

HistInit == [appends |-> << >>, requested |-> {}]

HistExtend(h, self) ==
    [h EXCEPT !.appends =
        [i \in 1 .. Len(self.sections) |->
            IF i <= Len(h.appends) THEN h.appends[i] ELSE HistSection]]

HistAppend(h, self, sec_id, align, offset, kind_ok) ==
    LET old == HistExtend(h, self).appends[sec_id + 1]
    IN  [HistExtend(h, self) EXCEPT !.appends[sec_id + 1] =
            [last_offset |-> Some(offset),
             max_align |-> Max(old.max_align, align),
             appends_only |-> old.appends_only /\ kind_ok /\ IsPowerOfTwo(align)]]

HistSetData(h, self, sec_id) ==
    [HistExtend(h, self) EXCEPT !.appends[sec_id + 1].appends_only = FALSE]

InitOf(formats, architectures, endians, builds) ==
    /\ \E format \in formats, architecture \in architectures, endian \in endians :
          object = Object_new(format, architecture, endian)
    /\ last = [call |-> [op |-> "new"], ret |-> None, panic |-> FALSE]
    /\ failed = FALSE
    /\ debug_assertions \in builds
    /\ hist = HistInit

\* One call: its effect on the builder, or the panic that ends the run.
Call(r, call, h) ==
    /\ ~failed
    /\ object' = IF r.panic THEN object ELSE r.self
    /\ failed' = r.panic
    /\ last' = [call |-> call, ret |-> r.ret, panic |-> r.panic]
    /\ hist' = IF r.panic THEN hist ELSE h
    /\ UNCHANGED debug_assertions

DoAddSection(segment, name, kind) ==
    LET r == add_section(object, segment, name, kind)
    IN  Call(r, [op |-> "add_section", segment |-> segment, name |-> name,
                 kind |-> kind],
             HistExtend(hist, r.self))

DoSectionId(standard_section) ==
    LET r == section_id(object, standard_section)
    IN  Call(r, [op |-> "section_id", section |-> standard_section],
             [HistExtend(hist, r.self) EXCEPT
                 !.requested = hist.requested \cup {standard_section}])

DoSetSectionData(sec_id, data, align) ==
    LET r == set_section_data(object, sec_id, data, align)
    IN  Call(r, [op |-> "set_section_data", section |-> sec_id, data |-> data,
                 align |-> align],
             HistSetData(hist, r.self, sec_id))

DoAppendSectionData(sec_id, data, align) ==
    LET r == append_section_data(object, sec_id, data, align)
    IN  Call(r, [op |-> "append_section_data", section |-> sec_id,
                 data |-> data, align |-> align],
             HistAppend(hist, r.self, sec_id, align, r.ret,
                        ~Section_is_bss(section(object, sec_id))))

DoAppendSectionBss(sec_id, size, align) ==
    LET r == append_section_bss(object, sec_id, size, align)
    IN  Call(r, [op |-> "append_section_bss", section |-> sec_id,
                 size |-> size, align |-> align],
             HistAppend(hist, r.self, sec_id, align, r.ret,
                        Section_is_bss(section(object, sec_id))))

DoAddSubsection(standard_section, name) ==
    LET r == add_subsection(object, standard_section, name)
    IN  Call(r, [op |-> "add_subsection", section |-> standard_section,
                 name |-> name],
             HistExtend(hist, r.self))

DoSetSubsectionsViaSymbols ==
    Call(set_subsections_via_symbols(object),
         [op |-> "set_subsections_via_symbols"], hist)

DoSetMangling(mangling) ==
    Call(set_mangling(object, mangling),
         [op |-> "set_mangling", mangling |-> mangling], hist)

DoAddSymbol(sym) ==
    Call(add_symbol(object, sym), [op |-> "add_symbol", symbol |-> sym], hist)

DoSectionSymbol(sec_id) ==
    Call(section_symbol(object, sec_id),
         [op |-> "section_symbol", section |-> sec_id], hist)

DoSetSymbolData(symbol_id1, sec_id, offset, size) ==
    \E r \in {set_symbol_data(object, symbol_id1, sec_id, offset, size)} :
        Call(r, [op |-> "set_symbol_data", symbol |-> symbol_id1,
                 section |-> sec_id, offset |-> offset, size |-> size],
             HistExtend(hist, r.self))

DoAddSymbolData(symbol_id1, sec_id, data, align) ==
    \E r \in {add_symbol_data(object, symbol_id1, sec_id, data, align)} :
        Call(r, [op |-> "add_symbol_data", symbol |-> symbol_id1,
                 section |-> sec_id, data |-> data, align |-> align],
             HistExtend(hist, r.self))

DoAddSymbolBss(symbol_id1, sec_id, size, align) ==
    \E r \in {add_symbol_bss(object, symbol_id1, sec_id, size, align)} :
        Call(r, [op |-> "add_symbol_bss", symbol |-> symbol_id1,
                 section |-> sec_id, size |-> size, align |-> align],
             HistExtend(hist, r.self))

DoAddCommonSymbol(sym, size, align) ==
    \E r \in {add_common_symbol(object, sym, size, align)} :
        Call(r, [op |-> "add_common_symbol", symbol |-> sym, size |-> size,
                 align |-> align],
             HistExtend(hist, r.self))

DoSymbolSectionAndOffset(symbol_id1) ==
    \E r \in {symbol_section_and_offset(object, symbol_id1)} :
        Call(r, [op |-> "symbol_section_and_offset", symbol |-> symbol_id1],
             hist)

DoAddFileSymbol(name) ==
    Call(add_file_symbol(object, name),
         [op |-> "add_file_symbol", name |-> name], hist)

DoAddComdat(comdat) ==
    Call(add_comdat(object, comdat),
         [op |-> "add_comdat", comdat |-> comdat], hist)

DoAddRelocation(sec_id, relocation) ==
    Call(add_relocation(object, sec_id, relocation),
         [op |-> "add_relocation", section |-> sec_id,
          relocation |-> relocation],
         hist)

(***************************************************************************)
(* SpecRelocation: one data section and its section symbol, bytes          *)
(* appended to it, and relocations added to it.                            *)
(***************************************************************************)
RelocationPayload == <<17, 34, 51, 68>>

RelocationOffsets == {0, 4}

WideAddend == <<1, 2, 3, 4, 5, 0, 0, 0>>

RelocationAddends == {I64_zero, I64(-2), WideAddend}

RelocationFlagInputs ==
    { RelocationFlags_Generic("Absolute", 32),
      RelocationFlags_Generic("Absolute", 64),
      RelocationFlags_Generic("Relative", 16),
      RelocationFlags_Generic("Unknown", 32) }

RelocationInputs(self) ==
    { Relocation(offset, symbol_id1, addend, flags) :
        offset \in RelocationOffsets, symbol_id1 \in SymbolIds(self),
        addend \in RelocationAddends, flags \in RelocationFlagInputs }

InitRelocation ==
    InitOf({"Elf", "Coff"}, Architecture, Endianness, BOOLEAN)

\* The section the relocations go to: the standard data section or the
\* standard zero-fill section, created by the first call.
RelocationSectionId ==
    \E role \in {"Data", "UninitializedData"} :
        /\ object.sections = << >>
        /\ DoSectionId(role)

RelocationSectionSymbol ==
    \E sec_id \in SectionIds(object) : DoSectionSymbol(sec_id)

RelocationAppendData ==
    \E sec_id \in SectionIds(object) :
        /\ Len(section(object, sec_id).data) + Len(RelocationPayload) <= MaxDataLen
        /\ DoAppendSectionData(sec_id, RelocationPayload, 1)

RelocationAdd ==
    \E sec_id \in SectionIds(object) :
        /\ Len(section(object, sec_id).relocations) < MaxRelocations
        /\ \E relocation \in RelocationInputs(object) :
              DoAddRelocation(sec_id, relocation)

NextRelocation ==
    \/ RelocationSectionId
    \/ RelocationSectionSymbol
    \/ RelocationAppendData
    \/ RelocationAdd

SpecRelocation == InitRelocation /\ [][NextRelocation]_vars

(***************************************************************************)
(* SpecAppend: one section, the standard data section or the standard      *)
(* zero-fill section, with set_section_data, append_section_data and       *)
(* append_section_bss called on it, in both builds and with alignments     *)
(* that are powers of two and one that is not.                             *)
(***************************************************************************)
AppendRoles == {"Data", "UninitializedData"}

AppendPayloads == {<< >>, <<7>>, <<8, 9>>}

AppendSizes == {0, 1, 2}

AppendAligns == {1, 2, 3, 4}

InitAppend == InitOf({"Elf"}, {"X86_64"}, {"Little"}, BOOLEAN)

AppendSectionId ==
    \E role \in AppendRoles :
        /\ object.sections = << >>
        /\ DoSectionId(role)

AppendSetData ==
    \E sec_id \in SectionIds(object), data \in AppendPayloads,
       align \in AppendAligns :
        DoSetSectionData(sec_id, data, align)

AppendData ==
    \E sec_id \in SectionIds(object), data \in AppendPayloads,
       align \in AppendAligns :
        /\ Section_append_data(section(object, sec_id), data, align).self.size
             <= MaxAppendSize
        /\ DoAppendSectionData(sec_id, data, align)

AppendBss ==
    \E sec_id \in SectionIds(object), size \in AppendSizes,
       align \in AppendAligns :
        /\ Section_append_bss(section(object, sec_id), size, align).self.size
             <= MaxAppendSize
        /\ DoAppendSectionBss(sec_id, size, align)

NextAppend ==
    \/ AppendSectionId
    \/ AppendSetData
    \/ AppendData
    \/ AppendBss

SpecAppend == InitAppend /\ [][NextAppend]_vars

(***************************************************************************)
(* SpecStandard: standard sections requested through section_id, in any    *)
(* order and any number of times.                                          *)
(***************************************************************************)
InitStandard == InitOf(BinaryFormat, {"X86_64"}, {"Little"}, {TRUE})

StandardSectionId ==
    \E role \in StandardSection :
        /\ \/ contains_key(object.standard_sections, role)
           \/ Len(object.sections) < MaxRoleSections
        /\ DoSectionId(role)

NextStandard == StandardSectionId

SpecStandard == InitStandard /\ [][NextStandard]_vars

(***************************************************************************)
(* SpecSections: sections created by add_section, with triples that are    *)
(* and are not standard section tuples of the format, and standard         *)
(* sections requested through section_id.                                  *)
(***************************************************************************)
SectionRoles == {"Text", "ReadOnlyData", "ReadOnlyString", "Common"}

SectionTriples(self) ==
    { [segment |-> section_info(self, role).segment,
       name |-> section_info(self, role).name,
       kind |-> section_info(self, role).kind] : role \in SectionRoles }
    \cup { [segment |-> << >>, name |-> <<".", "x">>, kind |-> "Data"],
           [segment |-> << >>, name |-> <<".", "t", "e", "x", "t">>,
            kind |-> "Data"] }

InitSections == InitOf(BinaryFormat, {"X86_64"}, {"Little"}, {TRUE})

SectionsAddSection ==
    \E triple \in SectionTriples(object) :
        /\ Len(object.sections) < MaxSections
        /\ DoAddSection(triple.segment, triple.name, triple.kind)

SectionsSectionId ==
    \E role \in SectionRoles :
        /\ \/ contains_key(object.standard_sections, role)
           \/ Len(object.sections) < MaxSections
        /\ DoSectionId(role)

NextSections ==
    \/ SectionsAddSection
    \/ SectionsSectionId

SpecSections == InitSections /\ [][NextSections]_vars

(***************************************************************************)
(* SpecSymbols: sections created by add_section, section symbols, symbols  *)
(* added by add_symbol under each mangling, in both builds.                *)
(***************************************************************************)
SymbolSectionTriples ==
    { [segment |-> << >>, name |-> <<".", "t", "e", "x", "t">>, kind |-> "Text"] }

SymbolInputs(self) ==
    { Symbol(<<"f">>, "Text", "Linkage", SymbolSection_Undefined, "None"),
      Symbol(<<"f">>, "Data", "Linkage", SymbolSection_Absolute, "F1"),
      Symbol(<<"_", "f">>, "Tls", "Compilation", SymbolSection_Absolute, "None"),
      Symbol(<<"f">>, "Label", "Linkage", SymbolSection_Undefined, "None"),
      Symbol(<< >>, "Text", "Unknown", SymbolSection_Undefined, "None"),
      Symbol(<<"f">>, "Text", "Unknown", SymbolSection_Absolute, "None"),
      Symbol(<< >>, "Section", "Compilation", SymbolSection_Undefined, "None") }
    \cup { Symbol(<< >>, "Section", scope, SymbolSection_Section(sec_id), flags) :
             scope \in {"Compilation", "Unknown"}, sec_id \in SectionIds(self),
             flags \in {"None", "F1"} }

InitSymbols == InitOf({"Elf", "Coff"}, {"X86_64"}, {"Little"}, BOOLEAN)

SymbolsAddSection ==
    \E triple \in SymbolSectionTriples :
        /\ Len(object.sections) < MaxSymbolSections
        /\ DoAddSection(triple.segment, triple.name, triple.kind)

SymbolsSectionSymbol ==
    \E sec_id \in SectionIds(object) :
        /\ Len(section_symbol(object, sec_id).self.symbols) <= MaxSymbols
        /\ DoSectionSymbol(sec_id)

SymbolsAddSymbol ==
    \E sym \in SymbolInputs(object) :
        /\ Len(add_symbol(object, sym).self.symbols) <= MaxSymbols
        /\ DoAddSymbol(sym)

SymbolsSetMangling ==
    \E mangling \in {"None", "MachO"} : DoSetMangling(mangling)

NextSymbols ==
    \/ SymbolsAddSection
    \/ SymbolsSectionSymbol
    \/ SymbolsAddSymbol
    \/ SymbolsSetMangling

SpecSymbols == InitSymbols /\ [][NextSymbols]_vars

(***************************************************************************)
(* SpecIds: the three stores (sections, symbols, COMDATs) grown by every   *)
(* creating call, with the calls that reuse an entry (section_id on a      *)
(* registered role, section_symbol, add_symbol of kind section) and a      *)
(* content call in between.                                                *)
(***************************************************************************)
IdsSymbolInputs(self) ==
    { Symbol(<<"f">>, "Text", "Linkage", SymbolSection_Undefined, "None"),
      Symbol(<< >>, "Label", "Compilation", SymbolSection_Absolute, "None") }
    \cup { Symbol(<< >>, "Section", "Compilation",
                  SymbolSection_Section(sec_id), "None") :
             sec_id \in SectionIds(self) }

IdsComdatInputs(self) ==
    { Comdat("Any", symbol_id1, <<sec_id>>) :
        symbol_id1 \in SymbolIds(self) \cap {0},
        sec_id \in SectionIds(self) \cap {0} }

InitIds == InitOf({"Elf"}, {"X86_64"}, {"Little"}, {TRUE})

IdsAddSection ==
    /\ Len(object.sections) < MaxIdSections
    /\ DoAddSection(<< >>, <<".", "x">>, "Data")

IdsSectionId ==
    /\ \/ contains_key(object.standard_sections, "Text")
       \/ Len(object.sections) < MaxIdSections
    /\ DoSectionId("Text")

IdsAppendData ==
    \E sec_id \in SectionIds(object) \cap {0} :
        /\ section(object, sec_id).size = 0
        /\ DoAppendSectionData(sec_id, <<7>>, 1)

IdsSectionSymbol ==
    \E sec_id \in SectionIds(object) :
        /\ Len(section_symbol(object, sec_id).self.symbols) <= MaxSymbols
        /\ DoSectionSymbol(sec_id)

IdsAddSymbol ==
    \E sym \in IdsSymbolInputs(object) :
        /\ Len(add_symbol(object, sym).self.symbols) <= MaxSymbols
        /\ DoAddSymbol(sym)

IdsAddFileSymbol ==
    /\ Len(object.symbols) < MaxSymbols
    /\ DoAddFileSymbol(<<"a">>)

IdsAddComdat ==
    \E comdat \in IdsComdatInputs(object) :
        /\ Len(object.comdats) < MaxComdats
        /\ DoAddComdat(comdat)

NextIds ==
    \/ IdsAddSection
    \/ IdsSectionId
    \/ IdsAppendData
    \/ IdsSectionSymbol
    \/ IdsAddSymbol
    \/ IdsAddFileSymbol
    \/ IdsAddComdat

SpecIds == InitIds /\ [][NextIds]_vars

(***************************************************************************)
(* SpecSubsections: subsections of standard sections on every format, in   *)
(* both builds, with the subsections-via-symbols switch set at any point   *)
(* and standard sections requested in between.                             *)
(***************************************************************************)
SubsectionRoles == {"Text", "GnuProperty"}

SubsectionNames == {<< >>, <<"f">>}

InitSubsections == InitOf(BinaryFormat, {"X86_64"}, {"Little"}, BOOLEAN)

SubsectionsSetViaSymbols == DoSetSubsectionsViaSymbols

SubsectionsAddSubsection ==
    \E role \in SubsectionRoles, name \in SubsectionNames :
        /\ Len(object.sections) < MaxSections
        /\ DoAddSubsection(role, name)

SubsectionsSectionId ==
    \E role \in SubsectionRoles :
        /\ \/ contains_key(object.standard_sections, role)
           \/ Len(object.sections) < MaxSections
        /\ DoSectionId(role)

NextSubsections ==
    \/ SubsectionsSetViaSymbols
    \/ SubsectionsAddSubsection
    \/ SubsectionsSectionId

SpecSubsections == InitSubsections /\ [][NextSubsections]_vars

(***************************************************************************)
(* SpecSymbolData: one target section (initialized or zero-fill), symbols  *)
(* of kind data and thread-local, and data attached to them by             *)
(* add_symbol_data and add_symbol_bss, on ELF and Mach-O, in both builds,  *)
(* with the subsections-via-symbols switch set at any point.  Data is      *)
(* attached to symbols that are still undefined.                           *)
(***************************************************************************)
DataRoles == {"Data", "UninitializedData"}

DataSymbolInputs ==
    { Symbol(<<"f">>, "Data", "Linkage", SymbolSection_Undefined, "None"),
      Symbol(<<"g">>, "Tls", "Linkage", SymbolSection_Undefined, "None") }

DataPayloads == {<< >>, <<7>>}

DataSizes == {0, 1}

DataAligns == {1, 2}

\* The sections the caller asked for (the thread variables section and the
\* common section are the builder's own).
DataTargets(self) ==
    { self.standard_sections[role] : role \in DataRoles \cap DOMAIN self.standard_sections }

DataFits(self) ==
    /\ Len(self.symbols) <= MaxDataSymbols
    /\ \A sec_id \in DataTargets(self) :
          section(self, sec_id).size <= MaxSymbolDataSize

InitSymbolData == InitOf({"Elf", "MachO"}, {"X86_64"}, {"Little"}, BOOLEAN)

DataSectionId ==
    \E role \in DataRoles :
        /\ DataTargets(object) = {}
        /\ DoSectionId(role)

DataAddSymbol ==
    \E sym \in DataSymbolInputs :
        /\ Len(object.symbols) < MaxSymbols
        /\ DoAddSymbol(sym)

DataSetViaSymbols == DoSetSubsectionsViaSymbols

DataAddSymbolData ==
    \E symbol_id1 \in SymbolIds(object), sec_id \in DataTargets(object),
       data \in DataPayloads, align \in DataAligns :
        /\ Symbol_is_undefined(symbol(object, symbol_id1))
        /\ \E r \in {add_symbol_data(object, symbol_id1, sec_id, data, align)} :
              DataFits(r.self)
        /\ DoAddSymbolData(symbol_id1, sec_id, data, align)

DataAddSymbolBss ==
    \E symbol_id1 \in SymbolIds(object), sec_id \in DataTargets(object),
       size \in DataSizes, align \in DataAligns :
        /\ Symbol_is_undefined(symbol(object, symbol_id1))
        /\ \E r \in {add_symbol_bss(object, symbol_id1, sec_id, size, align)} :
              DataFits(r.self)
        /\ DoAddSymbolBss(symbol_id1, sec_id, size, align)

NextSymbolData ==
    \/ DataSectionId
    \/ DataAddSymbol
    \/ DataSetViaSymbols
    \/ DataAddSymbolData
    \/ DataAddSymbolBss

SpecSymbolData == InitSymbolData /\ [][NextSymbolData]_vars

(***************************************************************************)
(* SpecCommon: common symbols of kind data and thread-local on ELF and     *)
(* Mach-O, in both builds, next to a data section, with the                *)
(* subsections-via-symbols switch set at any point.                        *)
(***************************************************************************)
CommonSymbolInputs ==
    { Symbol(<<"c">>, "Data", "Linkage", SymbolSection_Undefined, "None"),
      Symbol(<<"t">>, "Tls", "Linkage", SymbolSection_Undefined, "None"),
      Symbol(<<"u">>, "Data", "Unknown", SymbolSection_Undefined, "None") }

CommonSizes == {0, 2}

CommonAligns == {1, 2}

CommonFits(self) ==
    /\ Len(self.symbols) <= MaxDataSymbols
    /\ contains_key(self.standard_sections, "Common") =>
          section(self, self.standard_sections["Common"]).size <= MaxAppendSize

InitCommon == InitOf({"Elf", "MachO"}, {"X86_64"}, {"Little"}, BOOLEAN)

CommonSectionId ==
    /\ ~contains_key(object.standard_sections, "Data")
    /\ DoSectionId("Data")

CommonSetViaSymbols == DoSetSubsectionsViaSymbols

CommonAddCommonSymbol ==
    \E sym \in CommonSymbolInputs, size \in CommonSizes, align \in CommonAligns :
        /\ \E r \in {add_common_symbol(object, sym, size, align)} :
              CommonFits(r.self)
        /\ DoAddCommonSymbol(sym, size, align)

NextCommon ==
    \/ CommonSectionId
    \/ CommonSetViaSymbols
    \/ CommonAddCommonSymbol

SpecCommon == InitCommon /\ [][NextCommon]_vars

(***************************************************************************)
(* SpecResolve: symbols with no section, undefined, absolute, common and   *)
(* defined in a section, and section symbols, resolved to a section symbol *)
(* and an offset on ELF and COFF in both builds.                           *)
(***************************************************************************)
ResolveSymbolInputs(self) ==
    { Symbol(<<"f">>, "Text", "Linkage", SymbolSection_Undefined, "None"),
      [Symbol(<<"a">>, "Data", "Linkage", SymbolSection_Absolute, "None")
          EXCEPT !.value = 2],
      [Symbol(<<"c">>, "Data", "Linkage", SymbolSection_Common, "None")
          EXCEPT !.size = 2],
      Symbol(<< >>, "File", "Compilation", SymbolSection_None, "None") }
    \cup { [Symbol(<<"d">>, "Data", "Linkage", SymbolSection_Section(sec_id),
                   "None") EXCEPT !.value = value] :
             sec_id \in SectionIds(self), value \in {0, 3} }
    \cup { Symbol(<< >>, "Section", "Compilation",
                  SymbolSection_Section(sec_id), "None") :
             sec_id \in SectionIds(self) }

InitResolve == InitOf({"Elf", "Coff"}, {"X86_64"}, {"Little"}, BOOLEAN)

ResolveAddSection ==
    \E triple \in SymbolSectionTriples :
        /\ Len(object.sections) < MaxSymbolSections
        /\ DoAddSection(triple.segment, triple.name, triple.kind)

ResolveAddSymbol ==
    \E sym \in ResolveSymbolInputs(object) :
        /\ \E r \in {add_symbol(object, sym)} :
              Len(r.self.symbols) <= MaxSymbols
        /\ DoAddSymbol(sym)

ResolveSymbolSectionAndOffset ==
    \E symbol_id1 \in SymbolIds(object) :
        /\ \E r \in {symbol_section_and_offset(object, symbol_id1)} :
              Len(r.self.symbols) <= MaxSymbols
        /\ DoSymbolSectionAndOffset(symbol_id1)

NextResolve ==
    \/ ResolveAddSection
    \/ ResolveAddSymbol
    \/ ResolveSymbolSectionAndOffset

SpecResolve == InitResolve /\ [][NextResolve]_vars

(***************************************************************************)
(* SpecFrame: appends of initialized bytes to two initialized sections,    *)
(* interleaved, in both builds.                                            *)
(***************************************************************************)
FrameRoles == {"Data", "ReadOnlyData"}

FramePayloads == {<< >>, <<7>>, <<8, 9>>}

FrameAligns == {1, 2, 3}

InitFrame == InitOf({"Elf"}, {"X86_64"}, {"Little"}, BOOLEAN)

FrameSectionId ==
    \E role \in FrameRoles :
        /\ ~contains_key(object.standard_sections, role)
        /\ DoSectionId(role)

FrameAppendData ==
    \E sec_id \in SectionIds(object), data \in FramePayloads,
       align \in FrameAligns :
        /\ \E r \in {Section_append_data(section(object, sec_id), data, align)} :
              r.self.size <= MaxFrameSize
        /\ DoAppendSectionData(sec_id, data, align)

NextFrame ==
    \/ FrameSectionId
    \/ FrameAppendData

SpecFrame == InitFrame /\ [][NextFrame]_vars

(***************************************************************************)
(* SpecMangling: symbols added under changing mangling schemes on ELF and  *)
(* Mach-O, and data attached to them, in both builds.                      *)
(***************************************************************************)
MangleSymbolInputs ==
    { Symbol(<<"f">>, "Data", "Linkage", SymbolSection_Undefined, "None"),
      Symbol(<<"g">>, "Tls", "Linkage", SymbolSection_Undefined, "None"),
      Symbol(<<"f">>, "Label", "Linkage", SymbolSection_Undefined, "None"),
      Symbol(<< >>, "Text", "Linkage", SymbolSection_Undefined, "None") }

MangleManglings == {"None", "MachO"}

InitMangling == InitOf({"Elf", "MachO"}, {"X86_64"}, {"Little"}, BOOLEAN)

MangleSectionId ==
    /\ ~contains_key(object.standard_sections, "Data")
    /\ DoSectionId("Data")

MangleSetMangling ==
    \E mangling \in MangleManglings : DoSetMangling(mangling)

MangleAddSymbol ==
    \E sym \in MangleSymbolInputs :
        /\ Len(object.symbols) < MaxSymbols
        /\ DoAddSymbol(sym)

MangleAddSymbolData ==
    \E symbol_id1 \in SymbolIds(object) :
        /\ contains_key(object.standard_sections, "Data")
        /\ Symbol_is_undefined(symbol(object, symbol_id1))
        /\ \E r \in {add_symbol_data(object, symbol_id1,
                                     object.standard_sections["Data"],
                                     <<7>>, 1)} :
              /\ Len(r.self.symbols) <= MaxDataSymbols
              /\ DoAddSymbolData(symbol_id1, object.standard_sections["Data"],
                                 <<7>>, 1)

NextMangling ==
    \/ MangleSectionId
    \/ MangleSetMangling
    \/ MangleAddSymbol
    \/ MangleAddSymbolData

SpecMangling == InitMangling /\ [][NextMangling]_vars

(***************************************************************************)
(* SpecIndex: linkable symbols, labels, unnamed symbols, file symbols and  *)
(* section symbols with equal names on ELF and COFF, in both builds.       *)
(***************************************************************************)
IndexSymbolInputs(self) ==
    { Symbol(<<"f">>, "Text", "Linkage", SymbolSection_Undefined, "None"),
      Symbol(<<"f">>, "Label", "Linkage", SymbolSection_Undefined, "None"),
      Symbol(<< >>, "Data", "Linkage", SymbolSection_Undefined, "None") }
    \cup { Symbol(<<"f">>, "Section", "Compilation",
                  SymbolSection_Section(sec_id), "None") :
             sec_id \in SectionIds(self) }

IndexFileNames == {<<"f">>, << >>}

InitIndex == InitOf({"Elf", "Coff"}, {"X86_64"}, {"Little"}, BOOLEAN)

IndexAddSection ==
    /\ Len(object.sections) < MaxSymbolSections
    /\ DoAddSection(<< >>, <<"f">>, "Data")

IndexSectionSymbol ==
    \E sec_id \in SectionIds(object) :
        /\ \E r \in {section_symbol(object, sec_id)} :
              Len(r.self.symbols) <= MaxSymbols
        /\ DoSectionSymbol(sec_id)

IndexAddSymbol ==
    \E sym \in IndexSymbolInputs(object) :
        /\ \E r \in {add_symbol(object, sym)} :
              Len(r.self.symbols) <= MaxSymbols
        /\ DoAddSymbol(sym)

IndexAddFileSymbol ==
    \E name \in IndexFileNames :
        /\ Len(object.symbols) < MaxSymbols
        /\ DoAddFileSymbol(name)

NextIndex ==
    \/ IndexAddSection
    \/ IndexSectionSymbol
    \/ IndexAddSymbol
    \/ IndexAddFileSymbol

SpecIndex == InitIndex /\ [][NextIndex]_vars

(***************************************************************************)
(* SpecScope: symbols of unknown and of linkage scope stored, made common  *)
(* and given data on ELF and Mach-O, with the debug assertions compiled    *)
(* in.                                                                     *)
(***************************************************************************)
ScopeSymbolInputs(self) ==
    { Symbol(<<"u">>, "Data", "Unknown", SymbolSection_Undefined, "None"),
      Symbol(<<"f">>, "Data", "Linkage", SymbolSection_Undefined, "None"),
      Symbol(<<"a">>, "Data", "Unknown", SymbolSection_Absolute, "None"),
      Symbol(<<"c">>, "Data", "Unknown", SymbolSection_Common, "None") }
    \cup { Symbol(<< >>, "Section", "Unknown", SymbolSection_Section(sec_id),
                  "None") : sec_id \in SectionIds(self) }

ScopeRoles == {"Data", "UninitializedData"}

ScopeTargets(self) ==
    { self.standard_sections[role] :
        role \in ScopeRoles \cap DOMAIN self.standard_sections }

ScopeFits(self) ==
    /\ Len(self.symbols) <= MaxDataSymbols
    /\ \A sec_id \in SectionIds(self) :
          section(self, sec_id).size <= MaxSymbolDataSize

InitScope == InitOf({"Elf", "MachO"}, {"X86_64"}, {"Little"}, {TRUE})

ScopeSectionId ==
    \E role \in ScopeRoles :
        /\ ScopeTargets(object) = {}
        /\ DoSectionId(role)

ScopeAddSymbol ==
    \E sym \in ScopeSymbolInputs(object) :
        /\ Len(object.symbols) < MaxSymbols
        /\ DoAddSymbol(sym)

ScopeAddCommonSymbol ==
    \E sym \in ScopeSymbolInputs(object) :
        /\ sym.section = SymbolSection_Undefined
        /\ Len(object.symbols) < MaxSymbols
        /\ \E r \in {add_common_symbol(object, sym, 1, 1)} : ScopeFits(r.self)
        /\ DoAddCommonSymbol(sym, 1, 1)

ScopeSetSymbolData ==
    \E symbol_id1 \in SymbolIds(object), sec_id \in ScopeTargets(object) :
        /\ \E r \in {set_symbol_data(object, symbol_id1, sec_id, 0, 1)} :
              ScopeFits(r.self)
        /\ DoSetSymbolData(symbol_id1, sec_id, 0, 1)

ScopeAddSymbolData ==
    \E symbol_id1 \in SymbolIds(object), sec_id \in ScopeTargets(object) :
        /\ \E r \in {add_symbol_data(object, symbol_id1, sec_id, <<7>>, 1)} :
              ScopeFits(r.self)
        /\ DoAddSymbolData(symbol_id1, sec_id, <<7>>, 1)

ScopeAddSymbolBss ==
    \E symbol_id1 \in SymbolIds(object), sec_id \in ScopeTargets(object) :
        /\ \E r \in {add_symbol_bss(object, symbol_id1, sec_id, 1, 1)} :
              ScopeFits(r.self)
        /\ DoAddSymbolBss(symbol_id1, sec_id, 1, 1)

NextScope ==
    \/ ScopeSectionId
    \/ ScopeAddSymbol
    \/ ScopeAddCommonSymbol
    \/ ScopeSetSymbolData
    \/ ScopeAddSymbolData
    \/ ScopeAddSymbolBss

SpecScope == InitScope /\ [][NextScope]_vars

(***************************************************************************)
(* SpecBackRef: section symbols created, resolved and given data like any  *)
(* other symbol, on ELF with up to MaxIdSections sections, in both builds. *)
(***************************************************************************)
BackRefSymbolInputs ==
    { Symbol(<<"f">>, "Data", "Linkage", SymbolSection_Undefined, "None") }

BackRefOffsets == {0, 3}

BackRefFits(self) ==
    /\ Len(self.symbols) <= MaxSymbols
    /\ \A sec_id \in SectionIds(self) :
          section(self, sec_id).size <= MaxSymbolDataSize

InitBackRef == InitOf({"Elf"}, {"X86_64"}, {"Little"}, BOOLEAN)

BackRefSectionId ==
    \E role \in {"Data", "UninitializedData"} :
        /\ ~contains_key(object.standard_sections, role)
        /\ Len(object.sections) < MaxIdSections
        /\ DoSectionId(role)

BackRefSectionSymbol ==
    \E sec_id \in SectionIds(object) :
        /\ \E r \in {section_symbol(object, sec_id)} : BackRefFits(r.self)
        /\ DoSectionSymbol(sec_id)

BackRefAddSymbol ==
    \E sym \in BackRefSymbolInputs :
        /\ Len(object.symbols) < MaxSymbols
        /\ DoAddSymbol(sym)

BackRefSymbolSectionAndOffset ==
    \E symbol_id1 \in SymbolIds(object) :
        /\ \E r \in {symbol_section_and_offset(object, symbol_id1)} :
              BackRefFits(r.self)
        /\ DoSymbolSectionAndOffset(symbol_id1)

BackRefSetSymbolData ==
    \E symbol_id1 \in SymbolIds(object), sec_id \in SectionIds(object),
       offset \in BackRefOffsets :
        DoSetSymbolData(symbol_id1, sec_id, offset, 1)

BackRefAddSymbolData ==
    \E symbol_id1 \in SymbolIds(object), sec_id \in SectionIds(object) :
        /\ ~Section_is_bss(section(object, sec_id))
        /\ \E r \in {add_symbol_data(object, symbol_id1, sec_id, <<7>>, 1)} :
              BackRefFits(r.self)
        /\ DoAddSymbolData(symbol_id1, sec_id, <<7>>, 1)

BackRefAddSymbolBss ==
    \E symbol_id1 \in SymbolIds(object), sec_id \in SectionIds(object) :
        /\ Section_is_bss(section(object, sec_id))
        /\ \E r \in {add_symbol_bss(object, symbol_id1, sec_id, 1, 1)} :
              BackRefFits(r.self)
        /\ DoAddSymbolBss(symbol_id1, sec_id, 1, 1)

NextBackRef ==
    \/ BackRefSectionId
    \/ BackRefSectionSymbol
    \/ BackRefAddSymbol
    \/ BackRefSymbolSectionAndOffset
    \/ BackRefSetSymbolData
    \/ BackRefAddSymbolData
    \/ BackRefAddSymbolBss

SpecBackRef == InitBackRef /\ [][NextBackRef]_vars

(***************************************************************************)
(* Relocation claims.                                                      *)
(***************************************************************************)
LastIs(op) == last.call.op = op

\* The call add_relocation(sec_id, relocation) on self reaches the
\* write-back: the type translates, is classified implicit-addend, the
\* addend is non-zero and the type's width is 32 or 64 bits.
WritesImplicitAddend(self, relocation) ==
    LET translated == translate_relocation(self, relocation)
        classified == adjust_addend(self, translated.relocation)
    IN  /\ translated.ret.ok
        /\ classified.ret.ok
        /\ classified.implicit
        /\ relocation.addend # I64_zero
        /\ relocation_size(self, translated.relocation) \in {32, 64}

AddendWidth(self, relocation) ==
    relocation_size(self, translate_relocation(self, relocation).relocation) \div 8

\* The addend as an integer of `width` bytes in the byte order.
AddendBytes(endian, addend, width) ==
    [k \in 1 .. width |->
        IF endian = "Little" THEN addend[k] ELSE addend[width + 1 - k]]

\* C1: after add_relocation with an implicit-addend type, a non-zero addend
\* and offset + width inside the section's bytes, the relocation stored last
\* in the section has addend 0, and the section bytes at
\* [offset, offset + width) are the addend in the object's byte order at the
\* type's width.
C1_ImplicitAddendWrittenBack ==
    LastIs("add_relocation") =>
        LET sec == section(object, last.call.section)
            relocation == last.call.relocation
            width == AddendWidth(object, relocation)
        IN  ( /\ WritesImplicitAddend(object, relocation)
              /\ relocation.offset + width <= Len(sec.data) )
            => /\ ~last.panic
               /\ last.ret = Ok
               /\ sec.relocations # << >>
               /\ sec.relocations[Len(sec.relocations)].addend = I64_zero
               /\ sec.relocations[Len(sec.relocations)].offset = relocation.offset
               /\ SubSeq(sec.data, relocation.offset + 1, relocation.offset + width)
                    = AddendBytes(object.endian, relocation.addend, width)

C1_Witness ==
    /\ LastIs("add_relocation")
    /\ last.ret = Ok
    /\ WritesImplicitAddend(object, last.call.relocation)
    /\ object.endian = "Big"
    /\ last.call.relocation.offset = 4
    /\ last.call.relocation.addend = WideAddend
    /\ AddendWidth(object, last.call.relocation) = 4

C3_UnsupportedLeavesModelUnchanged ==
    [][ LastIs("add_relocation")' =>
          LET translated == translate_relocation(object, last'.call.relocation)
              classified == adjust_addend(object, translated.relocation)
          IN  /\ ~translated.ret.ok =>
                    /\ ~last'.panic
                    /\ last'.ret = translated.ret
                    /\ object' = object
              /\ (translated.ret.ok /\ ~classified.ret.ok) =>
                    /\ ~last'.panic
                    /\ last'.ret = classified.ret
                    /\ object' = object ]_vars

C3_Witness ==
    /\ LastIs("add_relocation")
    /\ last.ret = Err("Unsupported")
    /\ ~translate_relocation(object, last.call.relocation).ret.ok
    /\ section(object, last.call.section).data # << >>
    /\ section(object, last.call.section).relocations # << >>

C3_WitnessClassify ==
    /\ LastIs("add_relocation")
    /\ last.ret = Err("Unsupported")
    /\ translate_relocation(object, last.call.relocation).ret.ok
    /\ section(object, last.call.section).data # << >>

\* C4: in every step the relocation list of every section is left as it
\* was, except that a successful add_relocation on the section appends one
\* entry, the call's relocation, at the end; a failed add_relocation changes
\* no list, and a new section starts with an empty list.
C4_RelocationsInCallOrder ==
    [][ /\ Len(object'.sections) >= Len(object.sections)
        /\ \A sec_id \in SectionIds(object') :
              LET after == section(object', sec_id).relocations
                  before == IF sec_id \in SectionIds(object)
                            THEN section(object, sec_id).relocations
                            ELSE << >>
                  added == /\ LastIs("add_relocation")'
                           /\ last'.ret = Ok
                           /\ last'.call.section = sec_id
              IN  IF added
                  THEN /\ Len(after) = Len(before) + 1
                       /\ SubSeq(after, 1, Len(before)) = before
                       /\ after[Len(after)].offset = last'.call.relocation.offset
                       /\ after[Len(after)].symbol = last'.call.relocation.symbol
                       /\ after[Len(after)].flags =
                            translate_relocation(object, last'.call.relocation)
                                .relocation.flags
                       /\ after[Len(after)].addend
                            \in {last'.call.relocation.addend, I64_zero}
                  ELSE after = before ]_vars

C4_Witness ==
    /\ LastIs("add_relocation")
    /\ last.ret = Ok
    /\ Len(section(object, last.call.section).relocations) = 2
    /\ section(object, last.call.section).relocations[1].offset
         > section(object, last.call.section).relocations[2].offset

(***************************************************************************)
(* Section store claims.                                                   *)
(***************************************************************************)
LastIsAppend == LastIs("append_section_data") \/ LastIs("append_section_bss")

\* C5: on a section that has only seen append_data calls (if it is not
\* zero-fill) or append_bss calls (if it is), all with power-of-two
\* alignments, each append returns an offset that is not below the offset
\* the previous append returned and that is a multiple of the alignment
\* passed, and leaves the section's alignment equal to the largest
\* alignment passed so far.
C5_AppendOffsetsAligned ==
    [][ ( /\ LastIsAppend'
          /\ ~last'.panic
          /\ hist'.appends[last'.call.section + 1].appends_only )
        => LET sec_id == last'.call.section
               before == hist.appends[sec_id + 1]
           IN  /\ before.last_offset # None => last'.ret >= before.last_offset[1]
               /\ last'.ret % last'.call.align = 0
               /\ section(object', sec_id).align
                    = hist'.appends[sec_id + 1].max_align ]_vars

C5_Witness ==
    /\ LastIs("append_section_data")
    /\ ~last.panic
    /\ hist.appends[last.call.section + 1].appends_only
    /\ last.call.align = 4
    /\ last.ret = 4
    /\ section(object, last.call.section).data = <<7, 0, 0, 0, 7>>

C5_WitnessBss ==
    /\ LastIs("append_section_bss")
    /\ ~last.panic
    /\ hist.appends[last.call.section + 1].appends_only
    /\ last.call.align = 2
    /\ last.ret = 2
    /\ section(object, last.call.section).align = 4

\* C6: section_id(role) creates at most one section and afterwards role is
\* registered to the SectionId it returned; no step changes or removes a
\* registration; and section_id on a registered role returns the registered
\* SectionId and leaves the builder as it was.
C6_SectionIdIdempotent ==
    [][ /\ \A role \in DOMAIN object.standard_sections :
              /\ role \in DOMAIN object'.standard_sections
              /\ object'.standard_sections[role] = object.standard_sections[role]
        /\ LastIs("section_id")' =>
              LET role == last'.call.section
              IN  /\ ~last'.panic
                  /\ Len(object'.sections) <= Len(object.sections) + 1
                  /\ role \in DOMAIN object'.standard_sections
                  /\ object'.standard_sections[role] = last'.ret
                  /\ role \in DOMAIN object.standard_sections =>
                        /\ last'.ret = object.standard_sections[role]
                        /\ object' = object ]_vars

C6_Witness ==
    /\ LastIs("section_id")
    /\ last.call.section = "ReadOnlyString"
    /\ last.ret = 1
    /\ Len(object.sections) = 3
    /\ object.standard_sections["ReadOnlyData"] = 1
    /\ hist.requested = {"ReadOnlyString"}

\* What identifies a section apart from identifiers: everything but the
\* SymbolId of its section symbol.
SectionContents(sec) ==
    [segment |-> sec.segment, name |-> sec.name, kind |-> sec.kind,
     size |-> sec.size, align |-> sec.align, data |-> sec.data,
     relocations |-> sec.relocations, flags |-> sec.flags]

\* The sections of a builder as a bag: each contents with how many sections
\* have it.
SectionBag(self) ==
    LET contents == {SectionContents(self.sections[i]) : i \in DOMAIN self.sections}
    IN  [c \in contents |->
            Cardinality({i \in DOMAIN self.sections :
                            SectionContents(self.sections[i]) = c})]

\* The builder after requesting the roles of `requested` once each, in the
\* order of StandardSection::all.
RECURSIVE RequestedInOrder(_, _, _)
RequestedInOrder(self, requested, i) ==
    IF i > Len(StandardSection_all) THEN self
    ELSE RequestedInOrder(
             IF StandardSection_all[i] \in requested
             THEN section_id(self, StandardSection_all[i]).self
             ELSE self,
             requested, i + 1)

\* C7: after section_id requests issued in any order and any number of
\* times on a new builder, the sections (as a bag of contents) and the
\* contents each role is registered to are those of requesting the same
\* set of roles once each in a fixed order.
C7_RequestOrderIndependent ==
    LET reference ==
            RequestedInOrder(
                Object_new(object.format, object.architecture, object.endian),
                hist.requested, 1)
    IN  /\ SectionBag(object) = SectionBag(reference)
        /\ DOMAIN object.standard_sections = DOMAIN reference.standard_sections
        /\ \A role \in DOMAIN object.standard_sections :
              SectionContents(section(object, object.standard_sections[role]))
                = SectionContents(
                      section(reference, reference.standard_sections[role]))

C7_Witness ==
    /\ hist.requested = {"ReadOnlyString", "ReadOnlyData", "Text"}
    /\ object.standard_sections["ReadOnlyString"] = 0
    /\ object.standard_sections["Text"] = 1
    /\ Len(object.sections) = 2
    /\ object.format = "Elf"

(***************************************************************************)
(* Symbol claims.                                                          *)
(***************************************************************************)
\* The symbols of kind section bound to section sec_id.
SectionSymbolsOf(self, sec_id) ==
    { id \in SymbolIds(self) :
        /\ symbol(self, id).kind = "Section"
        /\ symbol(self, id).section = SymbolSection_Section(sec_id) }

\* The step just taken asked for the section symbol of sec_id and returned.
AsksSectionSymbol(l, sec_id) ==
    /\ ~l.panic
    /\ \/ l.call.op = "section_symbol" /\ l.call.section = sec_id
       \/ /\ l.call.op = "add_symbol"
          /\ l.call.symbol.kind = "Section"
          /\ l.call.symbol.section = SymbolSection_Section(sec_id)

\* C8: there is a single section symbol per section.  Once a section's
\* symbol exists it stays that section's symbol; every later section_symbol
\* call and every later add_symbol call of kind section for that section
\* returns the same SymbolId and leaves the symbol-table length unchanged;
\* such an add_symbol call overwrites the symbol's flags when its flags are
\* non-default and leaves them unchanged when they are default; and no
\* section ever has more than one symbol of kind section bound to it.
C8_SingleSectionSymbol ==
    [][ /\ \A sec_id \in SectionIds(object') :
              Cardinality(SectionSymbolsOf(object', sec_id)) <= 1
        /\ \A sec_id \in SectionIds(object) :
              section(object, sec_id).symbol # None =>
                LET id == section(object, sec_id).symbol[1]
                IN  /\ section(object', sec_id).symbol = Some(id)
                    /\ AsksSectionSymbol(last', sec_id) =>
                         /\ last'.ret = id
                         /\ Len(object'.symbols) = Len(object.symbols)
                         /\ symbol(object', id).flags =
                              IF /\ last'.call.op = "add_symbol"
                                 /\ last'.call.symbol.flags # "None"
                              THEN last'.call.symbol.flags
                              ELSE symbol(object, id).flags ]_vars

\* A section symbol carrying flags F1 is asked for again by add_symbol with
\* default flags, next to another symbol: same id, flags kept.
C8_Witness ==
    /\ LastIs("add_symbol")
    /\ ~last.panic
    /\ last.call.symbol.kind = "Section"
    /\ last.call.symbol.flags = "None"
    /\ Len(object.symbols) = 2
    /\ last.ret = 0
    /\ symbol(object, 0).flags = "F1"
    /\ section(object, 0).symbol = Some(0)

\* C9: add_section also creates a section symbol: right after add_section
\* returns, exactly one symbol of kind section bound to the new section is
\* in the symbol table and is recorded as that section's symbol.
C9_AddSectionCreatesSectionSymbol ==
    (LastIs("add_section") /\ ~last.panic) =>
        /\ Cardinality(SectionSymbolsOf(object, last.ret)) = 1
        /\ section(object, last.ret).symbol # None
        /\ section(object, last.ret).symbol[1] \in
               SectionSymbolsOf(object, last.ret)

\* C10: under every mangling scheme, right after add_symbol returns id for a
\* symbol with a non-empty name and kind text, data or thread-local,
\* symbol_id of the caller's unmangled name is id.
C10_LookupByUnmangledName ==
    ( /\ LastIs("add_symbol")
      /\ ~last.panic
      /\ last.call.symbol.name # << >>
      /\ last.call.symbol.kind \in {"Text", "Data", "Tls"} ) =>
        symbol_id(object, last.call.symbol.name) = Some(last.ret)

\* Under a scheme with a prefix, the name f is added a second time: the
\* stored name carries the prefix and the lookup of f gives the newer id.
C10_Witness ==
    /\ LastIs("add_symbol")
    /\ ~last.panic
    /\ Mangling_global_prefix(object.mangling) # None
    /\ last.call.symbol.name = <<"f">>
    /\ last.call.symbol.kind = "Data"
    /\ last.ret = 1
    /\ symbol(object, 0).name = symbol(object, 1).name
    /\ symbol(object, 1).name = <<"_", "f">>
    /\ symbol_id(object, <<"f">>) = Some(1)

(***************************************************************************)
(* Identifier claims.                                                      *)
(***************************************************************************)
\* C11: identifiers are stable.  In every step the lengths of the section,
\* symbol and COMDAT stores do not decrease; each creating call
\* (add_section, add_symbol of a kind other than section, add_file_symbol,
\* add_comdat) returns the length its store had before the call and grows
\* that store by one, so the identifier was never issued before; and every
\* SectionId issued earlier still denotes a section with the same segment,
\* name and kind.
C11_IdentifiersStable ==
    [][ /\ Len(object'.sections) >= Len(object.sections)
        /\ Len(object'.symbols) >= Len(object.symbols)
        /\ Len(object'.comdats) >= Len(object.comdats)
        /\ (LastIs("add_section")' /\ ~last'.panic) =>
              /\ last'.ret = Len(object.sections)
              /\ Len(object'.sections) = Len(object.sections) + 1
        /\ ( /\ LastIs("add_symbol")'
             /\ ~last'.panic
             /\ last'.call.symbol.kind # "Section" ) =>
              /\ last'.ret = Len(object.symbols)
              /\ Len(object'.symbols) = Len(object.symbols) + 1
        /\ (LastIs("add_file_symbol")' /\ ~last'.panic) =>
              /\ last'.ret = Len(object.symbols)
              /\ Len(object'.symbols) = Len(object.symbols) + 1
        /\ (LastIs("add_comdat")' /\ ~last'.panic) =>
              /\ last'.ret = Len(object.comdats)
              /\ Len(object'.comdats) = Len(object.comdats) + 1
        /\ \A sec_id \in SectionIds(object) :
              /\ section(object', sec_id).segment = section(object, sec_id).segment
              /\ section(object', sec_id).name = section(object, sec_id).name
              /\ section(object', sec_id).kind = section(object, sec_id).kind
      ]_vars

\* A file symbol is added after a section symbol, with two sections and a
\* COMDAT already in their stores: it gets the next free SymbolId.
C11_Witness ==
    /\ LastIs("add_file_symbol")
    /\ ~last.panic
    /\ last.ret = 1
    /\ Len(object.symbols) = 2
    /\ symbol(object, 0).kind = "Section"
    /\ symbol(object, 1).kind = "File"
    /\ Len(object.sections) = 2
    /\ Len(object.comdats) = 1

(***************************************************************************)
(* Section creation claims.                                                *)
(***************************************************************************)
\* The triple is the policy triple of some standard section of the format.
MatchesPolicy(self, segment, name, kind) ==
    \E standard_section \in StandardSection :
        LET info == section_info(self, standard_section)
        IN  info.segment = segment /\ info.name = name /\ info.kind = kind

\* C12: an add_section call whose (segment, name, kind) is the policy
\* triple of no standard section of the format leaves the standard section
\* mapping as it was, and in every state each registered role maps to a
\* section carrying that role's policy triple, so no role is ever
\* registered to a section created with another triple.
C12_CustomSectionsNotRegistered ==
    [][ /\ ( /\ LastIs("add_section")'
             /\ ~MatchesPolicy(object, last'.call.segment, last'.call.name,
                               last'.call.kind) ) =>
              object'.standard_sections = object.standard_sections
        /\ \A role \in DOMAIN object'.standard_sections :
              LET sec == section(object', object'.standard_sections[role])
                  info == section_info(object', role)
              IN  /\ sec.segment = info.segment
                  /\ sec.name = info.name
                  /\ sec.kind = info.kind ]_vars

\* A section named like the standard text section but of kind data is
\* created after the text and read-only data roles were registered.
C12_Witness ==
    /\ LastIs("add_section")
    /\ ~last.panic
    /\ last.call.name = <<".", "t", "e", "x", "t">>
    /\ last.call.kind = "Data"
    /\ ~MatchesPolicy(object, last.call.segment, last.call.name, last.call.kind)
    /\ last.ret = 2
    /\ DOMAIN object.standard_sections = {"Text", "ReadOnlyData", "ReadOnlyString"}
    /\ object.standard_sections["Text"] = 0
    /\ object.standard_sections["ReadOnlyData"] = 1

(***************************************************************************)
(* Subsection claims.                                                      *)
(***************************************************************************)
\* What add_subsection is to do on a format without subsections via
\* symbols: append one section with the role's segment, kind and flags and
\* the synthesized name, and return its fresh SectionId.
AppendsSubsection(self, self1, l) ==
    LET info == section_info(self, l.call.section)
    IN  /\ ~l.panic
        /\ Len(self1.sections) = Len(self.sections) + 1
        /\ l.ret = Len(self.sections)
        /\ \A sec_id \in SectionIds(self) :
              section(self1, sec_id) = section(self, sec_id)
        /\ section(self1, l.ret).segment = info.segment
        /\ section(self1, l.ret).kind = info.kind
        /\ section(self1, l.ret).flags = info.flags
        /\ \E sep \in {<< >>, <<".">>, <<"$">>} :
              section(self1, l.ret).name
                = info.name \o (IF l.call.name = << >> THEN << >> ELSE sep)
                            \o l.call.name

\* What add_subsection is to do on a format with subsections via symbols:
\* return section_id(role), creating the standard section on first use only.
ReturnsParentSection(self, self1, l) ==
    /\ ~l.panic
    /\ l.ret = section_id(self, l.call.section).ret
    /\ self1 = section_id(self, l.call.section).self
    /\ Len(self1.sections) =
         Len(self.sections)
           + (IF contains_key(self.standard_sections, l.call.section)
              THEN 0 ELSE 1)

\* C13: add_subsection(role, name) on Mach-O returns exactly
\* section_id(role) and creates no section other than the standard one on
\* first use; on every other format each call appends one new section whose
\* segment, kind and flags are those of the role's policy tuple and whose
\* name is the format's synthesized subsection name, and returns its fresh
\* SectionId.
C13_AddSubsection ==
    [][ LastIs("add_subsection")' =>
          IF object.format = "MachO"
          THEN ReturnsParentSection(object, object', last')
          ELSE AppendsSubsection(object, object', last') ]_vars

\* C14 as stated: on Mach-O add_subsection returns the parent standard
\* section when the switch has been set and creates a separately named
\* section when it has not; on every other format
\* set_subsections_via_symbols changes no state.
C14_SwitchTogglesAddSubsection ==
    [][ /\ (LastIs("add_subsection")' /\ object.format = "MachO") =>
              IF object.macho_subsections_via_symbols
              THEN ReturnsParentSection(object, object', last')
              ELSE AppendsSubsection(object, object', last')
        /\ ( /\ LastIs("set_subsections_via_symbols")'
             /\ object.format # "MachO" ) =>
              (~last'.panic /\ object' = object) ]_vars

\* C14: add_subsection does not read the switch.  On Mach-O it returns the
\* parent standard section whether or not set_subsections_via_symbols has
\* been called, and that call only sets the object's
\* subsections-via-symbols flag; on every other format the call changes no
\* state (so no later result), and the flag is never set.
C14_SwitchDoesNotToggleAddSubsection ==
    [][ /\ (LastIs("add_subsection")' /\ object.format = "MachO") =>
              ReturnsParentSection(object, object', last')
        /\ LastIs("set_subsections_via_symbols")' =>
              /\ ~last'.panic
              /\ object' = [object EXCEPT !.macho_subsections_via_symbols =
                                             object.format = "MachO"]
        /\ object'.macho_subsections_via_symbols => object'.format = "MachO"
      ]_vars

\* On Mach-O, with the switch never set, a second subsection of the text
\* role is asked for: the registered standard section comes back.
C14_Witness ==
    /\ LastIs("add_subsection")
    /\ ~last.panic
    /\ object.format = "MachO"
    /\ ~object.macho_subsections_via_symbols
    /\ last.call.section = "Text"
    /\ last.call.name = <<"f">>
    /\ last.ret = 1
    /\ Len(object.sections) = 2
    /\ object.standard_sections["Text"] = 1
    /\ section(object, 1).name = <<"_", "_", "t", "e", "x", "t">>

\* On ELF the switch is a no-op between two subsections.
C14_WitnessNoOp ==
    /\ LastIs("set_subsections_via_symbols")
    /\ ~last.panic
    /\ object.format = "Elf"
    /\ ~object.macho_subsections_via_symbols
    /\ Len(object.sections) = 1
    /\ section(object, 0).name = <<".", "t", "e", "x", "t", ".", "f">>

(***************************************************************************)
(* Symbol data claims.                                                     *)
(***************************************************************************)
LastIsSymbolData(l) ==
    /\ l.call.op \in {"add_symbol_data", "add_symbol_bss"}
    /\ ~l.panic

\* The length of the payload the caller passed.
PayloadLength(l) ==
    IF l.call.op = "add_symbol_data" THEN Len(l.call.data) ELSE l.call.size

\* How far the target section reaches after the call: the length of its
\* buffer for add_symbol_data, its size for add_symbol_bss.
SectionEnd(self, l) ==
    IF l.call.op = "add_symbol_data"
    THEN Len(section(self, l.call.section).data)
    ELSE section(self, l.call.section).size

\* The effect of a zero-length payload as seen on symbol id: with the
\* switch enabled one byte (a zero byte, for initialized data) is added at
\* the returned offset and the size recorded is 1; with the switch not
\* enabled nothing is added past the padding and the size recorded is 0.
ZeroLengthPayload(self, self1, l, id) ==
    IF self.macho_subsections_via_symbols
    THEN /\ SectionEnd(self1, l) = l.ret + 1
         /\ l.call.op = "add_symbol_data" =>
               section(self1, l.call.section).data[l.ret + 1] = 0
         /\ symbol(self1, id).size = 1
    ELSE /\ SectionEnd(self1, l) = l.ret
         /\ symbol(self1, id).size = 0

\* C15 as stated: the size 1 (switch enabled) or 0 (not enabled) of a
\* zero-length payload is the size of the symbol passed to the call.
C15_ZeroLengthOnSymbol ==
    [][ (LastIsSymbolData(last') /\ PayloadLength(last') = 0) =>
          ZeroLengthPayload(object, object', last', last'.call.symbol) ]_vars

\* The symbol the data is attached to: the symbol passed, or, for a
\* thread-local symbol on Mach-O, the initializer symbol created for it.
AttachedSymbol(self, l) ==
    IF self.format = "MachO" /\ symbol(self, l.call.symbol).kind = "Tls"
    THEN Len(self.symbols)
    ELSE l.call.symbol

\* C15: while subsections-via-symbols is enabled, add_symbol_data with
\* empty data appends one zero byte and add_symbol_bss with size 0 reserves
\* one byte, and the size recorded is 1; while it is not enabled a
\* zero-length payload records size 0 and adds no byte beyond the alignment
\* padding.  The size is recorded on the symbol the data is attached to:
\* the symbol itself, or for a thread-local symbol on Mach-O its
\* initializer symbol, the thread-local symbol then describing its
\* three-pointer thread variable record.
C15_ZeroLengthOnAttachedSymbol ==
    [][ (LastIsSymbolData(last') /\ PayloadLength(last') = 0) =>
          /\ ZeroLengthPayload(object, object', last',
                               AttachedSymbol(object, last'))
          /\ AttachedSymbol(object, last') # last'.call.symbol =>
                /\ symbol(object', last'.call.symbol).size
                     = 3 * Architecture_address_size(object.architecture)[1]
                /\ symbol(object', last'.call.symbol).section
                     = SymbolSection_Section(
                           object'.standard_sections["TlsVariables"]) ]_vars

\* Mach-O with the switch enabled: an empty payload follows one byte.
C15_Witness ==
    /\ LastIs("add_symbol_data")
    /\ ~last.panic
    /\ object.macho_subsections_via_symbols
    /\ last.call.data = << >>
    /\ last.call.align = 2
    /\ last.ret = 2
    /\ section(object, last.call.section).data = <<7, 0, 0>>
    /\ symbol(object, last.call.symbol).kind = "Data"
    /\ symbol(object, last.call.symbol).size = 1

\* Mach-O with the switch enabled: zero bytes reserved for a thread-local
\* symbol.
C15_WitnessTls ==
    /\ LastIs("add_symbol_bss")
    /\ ~last.panic
    /\ object.macho_subsections_via_symbols
    /\ last.call.size = 0
    /\ symbol(object, last.call.symbol).kind = "Tls"
    /\ symbol(object, last.call.symbol).size = 24
    /\ section(object, last.call.section).size = 1
    /\ \E id \in SymbolIds(object) :
          /\ symbol(object, id).name
               = <<"_", "g", "$", "t", "l", "v", "$", "i", "n", "i", "t">>
          /\ symbol(object, id).size = 1

\* C16: on a format without thread-variable indirection, after
\* add_symbol_data or add_symbol_bss returns offset o, the symbol's section
\* is the section passed, its value is o and its size the payload length;
\* o is where the payload was appended (the previous end of the section
\* padded to a multiple of align, the payload's bytes at o for initialized
\* data); and no other symbol is modified.
C16_SymbolPointsAtAppendedData ==
    [][ (LastIsSymbolData(last') /\ object.format # "MachO") =>
          LET l == last'
              sym == symbol(object', l.call.symbol)
          IN  /\ sym.section = SymbolSection_Section(l.call.section)
              /\ sym.value = l.ret
              /\ sym.size = PayloadLength(l)
              /\ l.ret % l.call.align = 0
              /\ l.ret >= SectionEnd(object, l)
              /\ l.ret - SectionEnd(object, l) < l.call.align
              /\ SectionEnd(object', l) = l.ret + PayloadLength(l)
              /\ l.call.op = "add_symbol_data" =>
                    SubSeq(section(object', l.call.section).data,
                           l.ret + 1, l.ret + Len(l.call.data)) = l.call.data
              /\ Len(object'.symbols) = Len(object.symbols)
              /\ \A id \in SymbolIds(object) \ {l.call.symbol} :
                    symbol(object', id) = symbol(object, id) ]_vars

\* ELF: a second symbol gets one byte at the padded offset 2 while the
\* first symbol stays at offset 0.
C16_Witness ==
    /\ LastIs("add_symbol_data")
    /\ ~last.panic
    /\ object.format = "Elf"
    /\ last.call.symbol = 1
    /\ last.call.data = <<7>>
    /\ last.call.align = 2
    /\ last.ret = 2
    /\ symbol(object, 1).value = 2
    /\ symbol(object, 1).size = 1
    /\ symbol(object, 0).value = 0
    /\ symbol(object, 0).section = symbol(object, 1).section

(***************************************************************************)
(* Common symbol claims.                                                   *)
(***************************************************************************)
\* n padded to the next multiple of the power of two align.
AlignUp(n, align) ==
    IF n % align = 0 THEN n ELSE n + (align - (n % align))

\* The size of the standard common section, 0 while it does not exist.
CommonSize(self) ==
    IF contains_key(self.standard_sections, "Common")
    THEN section(self, self.standard_sections["Common"]).size
    ELSE 0

\* On a format without a common section: the symbol is stored with
\* section = common and size = size, and no section is created or grown.
MarkedCommon(self, self1, l) ==
    /\ l.ret = Len(self.symbols)
    /\ Len(self1.symbols) = Len(self.symbols) + 1
    /\ symbol(self1, l.ret).section = SymbolSection_Common
    /\ symbol(self1, l.ret).size = l.call.size
    /\ self1.sections = self.sections
    /\ self1.standard_sections = self.standard_sections

\* On a format with a common section: symbol id is placed in the standard
\* common section by a zero-fill append of size bytes at align.
PlacedInCommon(self, self1, l, id, size) ==
    /\ contains_key(self1.standard_sections, "Common")
    /\ section(self1, self1.standard_sections["Common"]).kind = "Common"
    /\ symbol(self1, id).section
         = SymbolSection_Section(self1.standard_sections["Common"])
    /\ symbol(self1, id).value = AlignUp(CommonSize(self), l.call.align)
    /\ symbol(self1, id).size = size
    /\ CommonSize(self1) = symbol(self1, id).value + size

\* C17 as stated: on Mach-O the symbol returned is placed in the standard
\* common section by a zero-fill append of size/align; on every other
\* format it is stored with section = common and size = size and no
\* section is created or grown.
C17_CommonSymbolPlaced ==
    [][ (LastIs("add_common_symbol")' /\ ~last'.panic) =>
          IF object.format = "MachO"
          THEN /\ last'.ret = Len(object.symbols)
               /\ PlacedInCommon(object, object', last', last'.ret,
                                 last'.call.size)
          ELSE MarkedCommon(object, object', last') ]_vars

\* C17: add_common_symbol on Mach-O adds the symbol and places its storage
\* in the standard common section by a zero-fill append at align of size
\* bytes, or of one byte when size is 0 and subsections-via-symbols is
\* enabled; the storage belongs to the symbol itself, or, for a
\* thread-local symbol, to the initializer symbol created for it.  On every
\* other format the symbol is stored with section = common and size = size
\* and no section is created or grown.
C17_CommonSymbolPlacedOrMarked ==
    [][ (LastIs("add_common_symbol")' /\ ~last'.panic) =>
          IF object.format = "MachO"
          THEN /\ last'.ret = Len(object.symbols)
               /\ PlacedInCommon(object, object', last',
                     IF last'.call.symbol.kind = "Tls"
                     THEN last'.ret + 1 ELSE last'.ret,
                     IF /\ last'.call.size = 0
                        /\ object.macho_subsections_via_symbols
                     THEN 1 ELSE last'.call.size)
          ELSE MarkedCommon(object, object', last') ]_vars

\* Mach-O with subsections-via-symbols: a common symbol of two bytes at
\* alignment 2 follows one of size 0, which took one byte.
C17_Witness ==
    /\ LastIs("add_common_symbol")
    /\ ~last.panic
    /\ object.format = "MachO"
    /\ last.call.symbol.kind = "Data"
    /\ last.ret = 1
    /\ symbol(object, 0).value = 0
    /\ symbol(object, 0).size = 1
    /\ symbol(object, 1).value = 2
    /\ symbol(object, 1).section = symbol(object, 0).section
    /\ CommonSize(object) = 4

\* Mach-O: the storage of a thread-local common symbol belongs to its
\* initializer symbol.
C17_WitnessTls ==
    /\ LastIs("add_common_symbol")
    /\ ~last.panic
    /\ object.format = "MachO"
    /\ last.call.symbol.kind = "Tls"
    /\ last.call.size = 2
    /\ CommonSize(object) = 2
    /\ symbol(object, last.ret).section
         # SymbolSection_Section(object.standard_sections["Common"])
    /\ symbol(object, last.ret + 1).section
         = SymbolSection_Section(object.standard_sections["Common"])

\* ELF: a common symbol is marked common next to an existing data section.
C17_WitnessMarked ==
    /\ LastIs("add_common_symbol")
    /\ ~last.panic
    /\ object.format = "Elf"
    /\ last.call.size = 2
    /\ Len(object.sections) = 1
    /\ symbol(object, last.ret).section = SymbolSection_Common
    /\ symbol(object, last.ret).size = 2

(***************************************************************************)
(* Symbol resolution claims.                                               *)
(***************************************************************************)
\* The result of resolving symbol s of self, the call leading to self1 and
\* returning ret: a section symbol maps to itself at offset 0, a symbol
\* defined in a section to that section's symbol (created if the section has
\* none) and its own value, and any other symbol to nothing, with the
\* object unchanged.
Resolves(self, self1, s, ret) ==
    LET sym == symbol(self, s)
    IN  IF sym.kind = "Section" THEN ret = Some(<<s, 0>>)
        ELSE IF sym.section.tag = "Section"
        THEN LET sec_id == sym.section.id
                 before == section(self, sec_id).symbol
             IN  /\ section(self1, sec_id).symbol # None
                 /\ ret = Some(<<section(self1, sec_id).symbol[1], sym.value>>)
                 /\ symbol(self1, ret[1][1]).kind = "Section"
                 /\ symbol(self1, ret[1][1]).section
                      = SymbolSection_Section(sec_id)
                 /\ IF before # None
                    THEN self1 = self
                    ELSE /\ ret[1][1] = Len(self.symbols)
                         /\ Len(self1.symbols) = Len(self.symbols) + 1
        ELSE /\ sym.section.tag \in {"None", "Undefined", "Absolute", "Common"}
             /\ ret = None
             /\ self1 = self

\* C18: symbol_section_and_offset(s) returns (s, 0) for a symbol of kind
\* section, (the section symbol of s's section, s's value) for any other
\* symbol defined in a section, creating the section symbol if it does not
\* exist, and no mapping with the object unchanged otherwise; a second call
\* in a row returns the same result and changes nothing.
C18_SymbolSectionAndOffset ==
    [][ (LastIs("symbol_section_and_offset")' /\ ~last'.panic) =>
          /\ Resolves(object, object', last'.call.symbol, last'.ret)
          /\ (/\ LastIs("symbol_section_and_offset")
              /\ ~last.panic
              /\ last.call.symbol = last'.call.symbol)
             => (last'.ret = last.ret /\ object' = object) ]_vars

\* A data symbol at value 3 in a section that had no section symbol has
\* been resolved: the section symbol created for it is the last symbol.
C18_Witness ==
    /\ LastIs("symbol_section_and_offset")
    /\ ~last.panic
    /\ last.call.symbol = 0
    /\ symbol(object, 0).kind = "Data"
    /\ symbol(object, 0).value = 3
    /\ Len(object.symbols) = 2
    /\ last.ret = Some(<<1, 3>>)
    /\ symbol(object, 1).kind = "Section"
    /\ section(object, 0).symbol = Some(1)

\* A section symbol has been resolved to itself, and a common symbol to
\* nothing.
C18_WitnessSection ==
    /\ LastIs("symbol_section_and_offset")
    /\ ~last.panic
    /\ symbol(object, last.call.symbol).kind = "Section"
    /\ last.ret = Some(<<last.call.symbol, 0>>)
    /\ \E s \in SymbolIds(object) :
          symbol(object, s).section = SymbolSection_Common

(***************************************************************************)
(* Section alignment and content claims.                                   *)
(***************************************************************************)
\* The documented preconditions of a set_section_data, append_section_data
\* or append_section_bss call on self: a power-of-two alignment, no
\* initialized data in a zero-fill section and no zero-fill in an
\* initialized one, and for set_section_data a section without data.
PreconditionsMet(self, call) ==
    LET sec == section(self, call.section)
    IN  /\ IsPowerOfTwo(call.align)
        /\ CASE call.op = "set_section_data" ->
                  ~Section_is_bss(sec) /\ sec.data = << >>
             [] call.op = "append_section_data" -> ~Section_is_bss(sec)
             [] call.op = "append_section_bss" -> Section_is_bss(sec)

\* C19: across set_section_data, append_section_data and append_section_bss
\* calls with their documented preconditions met, no section's alignment
\* decreases and no section's size shrinks.
C19_AlignmentNeverDecreases ==
    [][ ( /\ \/ LastIs("set_section_data")'
             \/ LastIs("append_section_data")'
             \/ LastIs("append_section_bss")'
          /\ ~last'.panic
          /\ PreconditionsMet(object, last'.call) )
        => \A sec_id \in SectionIds(object) :
              /\ section(object', sec_id).align >= section(object, sec_id).align
              /\ section(object', sec_id).size >= section(object, sec_id).size
      ]_vars

\* old is a prefix of new.
IsPrefix(old, new) ==
    /\ Len(old) <= Len(new)
    /\ \A i \in 1..Len(old) : new[i] = old[i]

\* C20: append_data on an initialized section leaves every byte below the
\* previous buffer length unchanged, fills the padding up to the returned
\* offset with zero bytes, places the appended bytes at
\* [offset, offset + len) and changes no other section; and no later step
\* changes a byte at an offset issued before.
C20_IssuedOffsetsStayValid ==
    [][ /\ ( /\ LastIs("append_section_data")'
             /\ ~last'.panic
             /\ ~Section_is_bss(section(object, last'.call.section)) )
           => LET sec_id == last'.call.section
                  old == section(object, sec_id).data
                  new == section(object', sec_id).data
                  offset == last'.ret
                  bytes == last'.call.data
              IN  /\ Len(old) <= offset
                  /\ Len(new) = offset + Len(bytes)
                  /\ IsPrefix(old, new)
                  /\ \A i \in (Len(old) + 1)..offset : new[i] = 0
                  /\ \A i \in 1..Len(bytes) : new[offset + i] = bytes[i]
                  /\ \A other \in SectionIds(object) \ {sec_id} :
                        section(object', other) = section(object, other)
        /\ \A sec_id \in SectionIds(object) :
              IsPrefix(section(object, sec_id).data,
                       section(object', sec_id).data) ]_vars

\* One byte was appended at offset 2 after a byte and a zero byte of
\* padding, next to another section that holds two bytes.
C20_Witness ==
    /\ LastIs("append_section_data")
    /\ ~last.panic
    /\ last.call.align = 2
    /\ last.ret = 2
    /\ section(object, last.call.section).data = <<7, 0, 7>>
    /\ \E other \in SectionIds(object) \ {last.call.section} :
          section(object, other).data = <<8, 9>>

(***************************************************************************)
(* Standard section registration claims.                                   *)
(***************************************************************************)
\* Section sec_id of self carries the policy triple of role.
CarriesPolicy(self, sec_id, role) ==
    LET sec == section(self, sec_id)
        info == section_info(self, role)
    IN  /\ sec.segment = info.segment
        /\ sec.name = info.name
        /\ sec.kind = info.kind

\* C21: add_section registers the new section for every standard role
\* whose policy triple equals the new section's triple and that has no
\* registration yet, and for no other role; no step re-points a registered
\* role; and in every state each registered role maps to the first-created
\* section whose triple matches that role's policy.
C21_FirstMatchingSectionRegistered ==
    [][ /\ (LastIs("add_section")' /\ ~last'.panic) =>
              \A role \in StandardSection :
                 LET info == section_info(object, role)
                     fresh == ~contains_key(object.standard_sections, role)
                     matches == /\ info.segment = last'.call.segment
                                /\ info.name = last'.call.name
                                /\ info.kind = last'.call.kind
                 IN  IF fresh /\ matches
                     THEN /\ contains_key(object'.standard_sections, role)
                          /\ object'.standard_sections[role] = last'.ret
                     ELSE contains_key(object'.standard_sections, role) = ~fresh
        /\ \A role \in DOMAIN object.standard_sections :
              /\ contains_key(object'.standard_sections, role)
              /\ object'.standard_sections[role] = object.standard_sections[role]
        /\ \A role \in DOMAIN object'.standard_sections :
              /\ CarriesPolicy(object', object'.standard_sections[role], role)
              /\ \A sec_id \in SectionIds(object') :
                    CarriesPolicy(object', sec_id, role)
                      => object'.standard_sections[role] <= sec_id ]_vars

\* A second section with the policy triple of the text role has been added:
\* the role still maps to the first.
C21_Witness ==
    /\ LastIs("add_section")
    /\ ~last.panic
    /\ last.ret = 1
    /\ CarriesPolicy(object, 0, "Text")
    /\ CarriesPolicy(object, 1, "Text")
    /\ contains_key(object.standard_sections, "Text")
    /\ object.standard_sections["Text"] = 0

(***************************************************************************)
(* Name mangling and name index claims.                                    *)
(***************************************************************************)
\* The call recorded in l added a symbol with a non-empty name and kind
\* text, data or thread-local.
AddsLinkable(l) ==
    /\ l.call.op = "add_symbol"
    /\ ~l.panic
    /\ l.call.symbol.name # << >>
    /\ l.call.symbol.kind \in {"Text", "Data", "Tls"}

\* C22: add_symbol of a symbol with non-empty name n and kind text, data or
\* thread-local stores prefix followed by n when the mangling scheme active
\* at the call has a global prefix and n otherwise, under the name-index
\* key n; and no step changes the name of a stored symbol or removes a key.
C22_PrefixAppliedOnceAtInsertion ==
    [][ /\ AddsLinkable(last') =>
              LET n == last'.call.symbol.name
                  prefix == Mangling_global_prefix(object.mangling)
              IN  /\ symbol(object', last'.ret).name
                       = IF prefix # None THEN <<prefix[1]>> \o n ELSE n
                  /\ contains_key(object'.symbol_map, n)
                  /\ object'.symbol_map[n] = last'.ret
        /\ \A id \in SymbolIds(object) :
              symbol(object', id).name = symbol(object, id).name
        /\ \A n \in DOMAIN object.symbol_map :
              /\ contains_key(object'.symbol_map, n)
              /\ object'.symbol_map[n] # object.symbol_map[n]
                   => (AddsLinkable(last') /\ last'.call.symbol.name = n)
      ]_vars

\* A symbol stored with the prefix has data attached, the mangling scheme
\* was changed, and a second symbol was stored without the prefix.
C22_Witness ==
    /\ LastIs("add_symbol")
    /\ ~last.panic
    /\ last.ret = 1
    /\ object.mangling = "None"
    /\ symbol(object, 0).name = <<"_", "f">>
    /\ symbol(object, 0).section.tag = "Section"
    /\ symbol(object, 1).name = <<"g">>
    /\ object.symbol_map[<<"f">>] = 0
    /\ object.symbol_map[<<"g">>] = 1

\* Every name-index entry of self belongs to a symbol with a non-empty name
\* of kind text, data or thread-local, stored under the key with or without
\* a global prefix.
IndexHoldsLinkable(self) ==
    \A n \in DOMAIN self.symbol_map :
        LET sym == symbol(self, self.symbol_map[n])
        IN  /\ n # << >>
            /\ sym.kind \in {"Text", "Data", "Tls"}
            /\ sym.name = n \/ (sym.name # << >> /\ Tail(sym.name) = n)

\* The call recorded in l is add_file_symbol, section_symbol, or add_symbol
\* with an empty name or a kind other than text, data and thread-local.
AddsUnindexed(l) ==
    /\ ~l.panic
    /\ \/ l.call.op = "add_file_symbol"
       \/ l.call.op = "section_symbol"
       \/ /\ l.call.op = "add_symbol"
          /\ \/ l.call.symbol.name = << >>
             \/ l.call.symbol.kind \notin {"Text", "Data", "Tls"}

\* The call recorded in l asks for the section symbol of a section of self
\* that already has one.
AsksExistingSectionSymbol(self, l) ==
    \/ /\ l.call.op = "section_symbol"
       /\ section(self, l.call.section).symbol # None
    \/ /\ l.call.op = "add_symbol"
       /\ l.call.symbol.kind = "Section"
       /\ section(self, l.call.symbol.section.id).symbol # None

\* The call recorded in l appended one symbol to self.
AppendsSymbol(self, self1, l) ==
    /\ Len(self1.symbols) = Len(self.symbols) + 1
    /\ l.ret = Len(self.symbols)
    /\ \A id \in SymbolIds(self) : symbol(self1, id) = symbol(self, id)

\* add_file_symbol stores a kind-file, compilation-scope, section-none
\* symbol under its name as given.
StoresFileSymbol(self1, l) ==
    l.call.op = "add_file_symbol" =>
       /\ symbol(self1, l.ret).name = l.call.name
       /\ symbol(self1, l.ret).kind = "File"
       /\ symbol(self1, l.ret).scope = "Compilation"
       /\ symbol(self1, l.ret).section = SymbolSection_None

\* C23 as stated: the name index holds linkable symbols only, and
\* add_file_symbol, section_symbol and add_symbol with an empty name or
\* another kind each leave the name index unchanged and append a new symbol.
C23_UnindexedAlwaysAppend ==
    [][ /\ IndexHoldsLinkable(object')
        /\ AddsUnindexed(last') =>
              /\ object'.symbol_map = object.symbol_map
              /\ StoresFileSymbol(object', last')
              /\ AppendsSymbol(object, object', last') ]_vars

\* C23: the name index holds linkable symbols only; add_file_symbol,
\* section_symbol and add_symbol with an empty name or another kind each
\* leave the name index unchanged; and they append a new symbol even when
\* an equal name is already stored, except that section_symbol and
\* add_symbol of kind section return the existing section symbol of a
\* section that already has one and append nothing.
C23_UnindexedAppendOrReuse ==
    [][ /\ IndexHoldsLinkable(object')
        /\ AddsUnindexed(last') =>
              /\ object'.symbol_map = object.symbol_map
              /\ StoresFileSymbol(object', last')
              /\ IF AsksExistingSectionSymbol(object, last')
                 THEN /\ Len(object'.symbols) = Len(object.symbols)
                      /\ last'.ret < Len(object.symbols)
                 ELSE AppendsSymbol(object, object', last') ]_vars

\* A file symbol named like a stored and indexed text symbol has been
\* appended; the index still points at the text symbol.
C23_Witness ==
    /\ LastIs("add_file_symbol")
    /\ ~last.panic
    /\ last.ret = 1
    /\ symbol(object, 0).kind = "Text"
    /\ symbol(object, 0).name = <<"f">>
    /\ symbol(object, 1).kind = "File"
    /\ symbol(object, 1).name = <<"f">>
    /\ DOMAIN object.symbol_map = {<<"f">>}
    /\ object.symbol_map[<<"f">>] = 0

\* The section symbol of a section that has one was asked for again after
\* another symbol was added: nothing was appended.
C23_WitnessReuse ==
    /\ LastIs("section_symbol")
    /\ ~last.panic
    /\ last.ret = 0
    /\ Len(object.symbols) = 2
    /\ section(object, last.call.section).symbol = Some(0)

(***************************************************************************)
(* Symbol scope claims.                                                    *)
(***************************************************************************)
\* The call recorded in l, made on self, would store or define a symbol of
\* scope unknown outside the undefined section.
DefinesUnscoped(self, l) ==
    \/ /\ l.call.op = "add_symbol"
       /\ l.call.symbol.scope = "Unknown"
       /\ ~Symbol_is_undefined(l.call.symbol)
    \/ /\ l.call.op = "add_common_symbol"
       /\ l.call.symbol.scope = "Unknown"
    \/ /\ l.call.op \in {"set_symbol_data", "add_symbol_data", "add_symbol_bss"}
       /\ symbol(self, l.call.symbol).scope = "Unknown"

\* C24: with the debug assertions compiled in, every add_symbol,
\* add_common_symbol, set_symbol_data, add_symbol_data and add_symbol_bss
\* call that would store or define a symbol of scope unknown outside the
\* undefined section fails its assertion, and in every state that has not
\* failed each symbol whose section is not undefined has a scope other than
\* unknown.
C24_DefinedSymbolsHaveScope ==
    [][ debug_assertions =>
          /\ DefinesUnscoped(object, last') => (last'.panic /\ failed')
          /\ ~failed' =>
                \A id \in SymbolIds(object') :
                   ~Symbol_is_undefined(symbol(object', id))
                      => symbol(object', id).scope # "Unknown" ]_vars

\* add_symbol_data on a stored undefined symbol of scope unknown has failed
\* its assertion.
C24_Witness ==
    /\ debug_assertions
    /\ failed
    /\ last.panic
    /\ LastIs("add_symbol_data")
    /\ symbol(object, last.call.symbol).scope = "Unknown"
    /\ Symbol_is_undefined(symbol(object, last.call.symbol))

\* A symbol of linkage scope has been defined by set_symbol_data next to an
\* undefined symbol of scope unknown.
C24_WitnessDefined ==
    /\ debug_assertions
    /\ ~failed
    /\ LastIs("set_symbol_data")
    /\ symbol(object, last.call.symbol).scope # "Unknown"
    /\ \E id \in SymbolIds(object) :
          /\ symbol(object, id).scope = "Unknown"
          /\ Symbol_is_undefined(symbol(object, id))

\* The call recorded in l, made on self, appends bytes to or sets the bytes
\* of a bss section, or appends zero-fill to a section that is not one.
WrongKindOfSection(self, l) ==
    \/ /\ l.call.op \in {"append_section_data", "set_section_data"}
       /\ Section_is_bss(section(self, l.call.section))
    \/ /\ l.call.op = "append_section_bss"
       /\ ~Section_is_bss(section(self, l.call.section))

\* C25: with the debug assertions compiled in, append_data and set_data on
\* a bss section and append_bss on a section that is not one fail their
\* assertion and leave the section as it was, and in every state a non-bss
\* section's size is the length of its byte buffer while a bss section's
\* buffer is empty.
C25_BytesOrCounter ==
    [][ debug_assertions =>
          /\ WrongKindOfSection(object, last') =>
                (last'.panic /\ failed' /\ object' = object)
          /\ \A sec_id \in SectionIds(object') :
                LET sec == section(object', sec_id)
                IN  IF Section_is_bss(sec)
                    THEN sec.data = << >>
                    ELSE sec.size = Len(sec.data) ]_vars

\* Bytes were appended, at a power-of-two alignment, to a bss section that
\* counts two bytes of zero-fill: the call failed its assertion.
C25_Witness ==
    /\ debug_assertions
    /\ failed
    /\ last.panic
    /\ LastIs("append_section_data")
    /\ last.call.data # << >>
    /\ IsPowerOfTwo(last.call.align)
    /\ Section_is_bss(section(object, last.call.section))
    /\ section(object, last.call.section).size = 2
    /\ section(object, last.call.section).data = << >>

(***************************************************************************)
(* Section symbol claims.                                                  *)
(***************************************************************************)
\* C26: for each section whose symbol back-reference is set, the referenced
\* symbol has kind section, value 0 and is bound to that same section, and
\* no two sections share a section symbol.
C26_BackReferencesConsistent ==
    /\ \A sec_id \in SectionIds(object) :
          section(object, sec_id).symbol # None =>
             LET sym == symbol(object, section(object, sec_id).symbol[1])
             IN  /\ sym.kind = "Section"
                 /\ sym.value = 0
                 /\ sym.section = SymbolSection_Section(sec_id)
    /\ \A a, b \in SectionIds(object) :
          ( /\ a # b
            /\ section(object, a).symbol # None
            /\ section(object, b).symbol # None )
          => section(object, a).symbol # section(object, b).symbol

\* C27: add_symbol of a symbol with a non-empty name and kind text, data or
\* thread-local whose name is already in the name index appends a distinct
\* symbol with a fresh SymbolId; afterwards symbol_id(name) returns the new
\* SymbolId, and the earlier symbol is still in the table, unchanged, under
\* no key of the name index.
C27_LatestDuplicateWins ==
    [][ ( /\ AddsLinkable(last')
          /\ contains_key(object.symbol_map, last'.call.symbol.name) ) =>
          LET n == last'.call.symbol.name
              earlier == object.symbol_map[n]
          IN  /\ Len(object'.symbols) = Len(object.symbols) + 1
              /\ last'.ret = Len(object.symbols)
              /\ last'.ret # earlier
              /\ symbol_id(object', n) = Some(last'.ret)
              /\ symbol(object', earlier) = symbol(object, earlier)
              /\ \A k \in DOMAIN object'.symbol_map :
                    object'.symbol_map[k] # earlier ]_vars

\* Two text symbols named f are stored and the name index points at the
\* second.
C27_Witness ==
    /\ LastIs("add_symbol")
    /\ ~last.panic
    /\ last.ret = 1
    /\ symbol(object, 0).name = <<"f">>
    /\ symbol(object, 0).kind = "Text"
    /\ symbol(object, 1).name = <<"f">>
    /\ symbol(object, 1).kind = "Text"
    /\ symbol_id(object, <<"f">>) = Some(1)

(***************************************************************************)
(* Addend width claims.                                                    *)
(***************************************************************************)
\* The 64-bit addend, given by its eight base-256 digits, lowest first, is
\* in the signed 32-bit range: its upper four digits extend the sign of the
\* fourth.
InSigned32(addend) ==
    \A k \in 5..8 : addend[k] = (IF addend[4] >= 128 THEN 255 ELSE 0)

\* The digits, lowest first, of the integer stored in `width` bytes at
\* offset of data in the byte order.
StoredDigits(endian, data, offset, width) ==
    [k \in 1..width |->
        IF endian = "Little" THEN data[offset + k]
        ELSE data[offset + width + 1 - k]]

\* C28: add_relocation with an implicit-addend type of width 32 or 64, a
\* non-zero addend and the field inside the section's bytes succeeds for
\* every signed 64-bit addend; the integer stored in the field is the
\* addend modulo 2^32 (2^64 at width 64), that is its lowest four (eight)
\* base-256 digits, also when the addend is outside the signed 32-bit
\* range; and the relocation is stored with addend 0.
C28_AddendWrapsAtWidth ==
    LastIs("add_relocation") =>
        LET sec == section(object, last.call.section)
            relocation == last.call.relocation
            width == AddendWidth(object, relocation)
        IN  ( /\ WritesImplicitAddend(object, relocation)
              /\ relocation.offset + width <= Len(sec.data) )
            => /\ ~last.panic
               /\ last.ret = Ok
               /\ \A k \in 1..width :
                     StoredDigits(object.endian, sec.data, relocation.offset,
                                  width)[k] = relocation.addend[k]
               /\ sec.relocations # << >>
               /\ sec.relocations[Len(sec.relocations)].addend = I64_zero

\* An addend outside the signed 32-bit range was written at width 32 in
\* little-endian order without an error: the fifth digit is lost.
C28_Witness ==
    /\ LastIs("add_relocation")
    /\ ~last.panic
    /\ last.ret = Ok
    /\ WritesImplicitAddend(object, last.call.relocation)
    /\ AddendWidth(object, last.call.relocation) = 4
    /\ ~InSigned32(last.call.relocation.addend)
    /\ object.endian = "Little"
    /\ last.call.relocation.offset = 0
    /\ Len(section(object, last.call.section).data) >= 5
    /\ SubSeq(section(object, last.call.section).data, 1, 5)
         = <<1, 2, 3, 4, 17>>

====
